---- MODULE Spec2Model ----
(***************************************************************************)
(* Message store of src/index.ts: the nine tables, the POST /messages      *)
(* ingestion handler and the sqlite statements it issues.                  *)
(*                                                                         *)
(* The database handle is used in sqlite3's default (parallel) mode after  *)
(* the schema block: every db.run() is queued and executed by the engine   *)
(* one statement at a time, in an order the handler does not control.  A   *)
(* statement is therefore modelled as issued (it enters `pending`) and     *)
(* later executed atomically, or rejected by the engine.                   *)
(***************************************************************************)
EXTENDS Integers, Sequences, FiniteSets, TLC

\* ---------------------------------------------------------------- bounds
MaxReq == 2        \* POST /messages requests per behaviour
MaxFail == 1       \* statements the engine rejects per behaviour
MaxRuns == 2       \* start() calls of the plugin per behaviour
MaxEvents == 2     \* MESSAGE_CREATE dispatches per behaviour
MaxSent == 2       \* classifier requests counted per message id and run
MaxTimers == 1     \* channel-switch timers pending at once
MaxThrows == 1     \* runs of the scan that end in an exception per behaviour
MaxCalls == 12     \* addUserMessage calls of the direct-call specification

\* ------------------------------------------------------- JavaScript values
Undefined == "undefined"          \* an absent property
Null == "NULL"                    \* SQL NULL
Falsy == {Undefined, Null, "", "false"}

Truthy(x) == x \notin Falsy

\* `x || null` of the handler's value lists
OrNull(x) == IF Truthy(x) THEN x ELSE Null

\* `x ? 1 : 0` of the handler's value lists
Flag(x) == IF Truthy(x) THEN 1 ELSE 0

\* an undefined bound parameter is stored as NULL
Bind(x) == IF x = Undefined THEN Null ELSE x

\* a list property of the payload: an array of items, or not an array
List(items) == [isArray |-> TRUE, items |-> items]
NotAList == [isArray |-> FALSE, items |-> << >>]

\* ---------------------------------------------------------------- inputs
MsgIds == {"m1", "m2"}

NoAuthor == [id |-> Undefined, username |-> Undefined, globalName |-> Undefined]
Ann == [id |-> "A1", username |-> "ann", globalName |-> "Ann"]

NoMember == [present |-> "false", nick |-> Undefined, deaf |-> Undefined]
NoReference == [present |-> "false", message_id |-> Undefined]
NoReferenced == [present |-> "false", id |-> Undefined, content |-> Undefined]

\* the scalar part of an envelope: two payloads that differ in every field
Scalars(v) ==
    IF v = 1
    THEN [channelId |-> "ch1", content |-> "hello", timestamp |-> "t1",
          pinned |-> "true", author |-> Ann]
    ELSE [channelId |-> "ch2", content |-> Undefined, timestamp |-> "t2",
          pinned |-> Undefined, author |-> NoAuthor]

Variants == {1, 2}

NoChildren ==
    [attachments |-> NotAList, embeds |-> NotAList, components |-> NotAList,
     mentions |-> NotAList, member |-> NoMember,
     message_reference |-> NoReference, referenced_message |-> NoReferenced]

\* the child part of an envelope
Children(k) ==
    CASE k = "files" ->
           [NoChildren EXCEPT !.attachments =
               List(<< [id |-> "f1", filename |-> "a.png"],
                       [id |-> Undefined, filename |-> ""] >>)]
      [] k = "rich" ->
           [NoChildren EXCEPT !.embeds = List(<< [title |-> "news"] >>),
                              !.components = List(<< [label |-> "ok", disabled |-> "true"] >>),
                              !.mentions = List(<< [id |-> "A1"] >>)]
      [] k = "reply" ->
           [NoChildren EXCEPT !.member = [present |-> "true", nick |-> "annie", deaf |-> "false"],
                              !.message_reference = [present |-> "true", message_id |-> "r1"],
                              !.referenced_message = [present |-> "true", id |-> "r1", content |-> "first"]]
      [] k = "reply2" ->
           [NoChildren EXCEPT !.member = [present |-> "true", nick |-> Undefined, deaf |-> "true"],
                              !.message_reference = [present |-> "true", message_id |-> "r2"],
                              !.referenced_message = [present |-> "true", id |-> "r2", content |-> ""]]
      [] k = "quote" ->
           [NoChildren EXCEPT !.attachments = List(<< >>),
                              !.referenced_message = [present |-> "true", id |-> Undefined, content |-> "anon"]]
      [] OTHER -> NoChildren

Shapes == {"none", "files", "rich", "reply", "reply2", "quote"}

MessageOf(id, v, k) ==
    [present |-> "true", id |-> id,
     content |-> Scalars(v).content, timestamp |-> Scalars(v).timestamp,
     pinned |-> Scalars(v).pinned, author |-> Scalars(v).author,
     attachments |-> Children(k).attachments, embeds |-> Children(k).embeds,
     components |-> Children(k).components, mentions |-> Children(k).mentions,
     member |-> Children(k).member,
     message_reference |-> Children(k).message_reference,
     referenced_message |-> Children(k).referenced_message]

\* req.body of POST /messages
Envelope(id, v, k) == [channelId |-> Scalars(v).channelId, message |-> MessageOf(id, v, k)]

NoMessage == [MessageOf(Undefined, 2, "none") EXCEPT !.present = "false"]

ValidEnvelopes == {Envelope(id, v, k) : id \in MsgIds, v \in Variants, k \in Shapes}

InvalidEnvelopes ==
    { [channelId |-> "ch1", message |-> NoMessage],
      Envelope(Undefined, 1, "files"),
      Envelope("", 1, "reply") }

Envelopes == ValidEnvelopes \cup InvalidEnvelopes

\* ----------------------------------------------------------------- state
VARIABLES
    messages,             \* table messages (id TEXT PRIMARY KEY)
    authors,              \* table authors (id TEXT PRIMARY KEY)
    attachments,          \* table attachments; position = AUTOINCREMENT id
    embeds,               \* table embeds; position = AUTOINCREMENT id
    components,           \* table components; position = AUTOINCREMENT id
    members,              \* table members (message_id TEXT PRIMARY KEY)
    mentions,             \* table mentions; position = AUTOINCREMENT id
    message_references,   \* table message_references (message_id TEXT PRIMARY KEY)
    referenced_messages,  \* table referenced_messages (id TEXT PRIMARY KEY), in rowid order
    user_insights,        \* table user_insights
    requests,             \* the POST /messages requests received so far
    pending,              \* statements issued by db.run and not yet executed
    applied,              \* statements the engine executed
    failed,               \* statements the engine rejected (err passed to the callback)
    lastUpsert,           \* per message id, the request whose messages upsert ran last
    ctx,                  \* the getMessageContext call in progress and its caller
    detail,               \* the GET /messages/:id request in progress
    lookup,               \* the last request to one of the single-query read endpoints
    insight,              \* the POST /user_insights/generate/:user_id request in progress
    plugin                \* the ToneIndicator instance, the page and its requests in flight

tables == << messages, authors, attachments, embeds, components, members, mentions,
             message_references, referenced_messages, user_insights >>

vars == << messages, authors, attachments, embeds, components, members, mentions,
           message_references, referenced_messages, user_insights,
           requests, pending, applied, failed, lastUpsert,
           ctx, detail, lookup, insight, plugin >>

\* the state of the handlers that only read the store
readers == << ctx, detail, lookup, insight >>

\* the state of the POST /messages handler
ingestion == << requests, pending, applied, failed, lastUpsert >>

NoResponse == [status |-> 0, success |-> FALSE]

\* no getMessageContext call has been made
NoCall ==
    [caller |-> "none", id |-> Undefined, pc |-> "idle", queries |-> 0,
     message |-> << >>, context |-> << >>, error |-> "", status |-> 0, lines |-> << >>,
     tone |-> "", chats |-> 0, reply |-> "", raised |-> "", replies |-> 0]

\* no GET /messages/:id request has been made
NoDetail ==
    [id |-> Undefined, pc |-> "idle", message |-> << >>, waiting |-> {},
     failed |-> {}, pending |-> 0, results |-> << >>, responses |-> << >>]

\* no single-query read request has been made
NoLookup ==
    [endpoint |-> "none", param |-> Undefined, pc |-> "idle", err |-> FALSE,
     status |-> 0, rows |-> << >>, texts |-> NotAList, calls |-> 0, sent |-> ""]

\* no insight generation request has been made
NoInsight ==
    [user |-> Undefined, pc |-> "idle", userMessages |-> << >>, k |-> 0,
     outstanding |-> {}, issued |-> << >>, completed |-> << >>, err |-> "",
     messageWithContext |-> << >>, responses |-> << >>]

\* no read request is being served: the read handlers are taken one request
\* at a time, since none of them writes what another reads
AllIdle ==
    /\ ctx.pc = "idle" /\ detail.pc = "idle" /\ lookup.pc = "idle" /\ insight.pc = "idle"

Stmt(r, t, n) == [req |-> r, tbl |-> t, n |-> n]

\* the payload a statement's values come from: the `message` its request's
\* handler closed over
EnvOf(s) == requests[s.req].env

\* ------------------------------------------------ rows the handler binds
AuthorId(m) == IF Truthy(m.author.id) THEN m.author.id ELSE Null

AuthorRow(e) ==
    [id |-> e.message.author.id,
     username |-> Bind(e.message.author.username),
     globalName |-> Bind(e.message.author.globalName)]

MessageRow(e) ==
    [id |-> e.message.id,
     channelId |-> Bind(e.channelId),
     author_id |-> AuthorId(e.message),
     content |-> Bind(e.message.content),
     pinned |-> Flag(e.message.pinned),
     message_timestamp |-> Bind(e.message.timestamp)]

AttachmentRow(e, n) ==
    [message_id |-> e.message.id,
     attachment_id |-> OrNull(e.message.attachments.items[n].id),
     filename |-> OrNull(e.message.attachments.items[n].filename)]

EmbedRow(e, n) ==
    [message_id |-> e.message.id,
     title |-> OrNull(e.message.embeds.items[n].title)]

ComponentRow(e, n) ==
    [message_id |-> e.message.id,
     label |-> OrNull(e.message.components.items[n].label),
     disabled |-> Flag(e.message.components.items[n].disabled)]

MemberRow(e) ==
    [message_id |-> e.message.id,
     nick |-> OrNull(e.message.member.nick),
     deaf |-> Flag(e.message.member.deaf)]

MentionRow(e, n) ==
    [message_id |-> e.message.id,
     user_id |-> OrNull(e.message.mentions.items[n].id)]

MessageReferenceRow(e) ==
    [message_id |-> e.message.id,
     ref_message_id |-> OrNull(e.message.message_reference.message_id)]

ReferencedMessageRow(e) ==
    [id |-> OrNull(e.message.referenced_message.id),
     parent_message_id |-> e.message.id,
     content |-> OrNull(e.message.referenced_message.content)]

\* ------------------------------------------------------------------- SQL
\* INSERT OR IGNORE: an existing row keeps its values
UpsertByIdIgnoring(table, row) ==
    IF \E x \in table : x.id = row.id THEN table ELSE table \cup {row}

\* INSERT OR REPLACE INTO a table keyed by id (messages, authors)
UpsertById(table, row) == {x \in table : x.id # row.id} \cup {row}

\* a plain INSERT that adds a row next to the stored one
InsertByMessageId(table, row) == table \cup {row}

\* INSERT OR REPLACE INTO a table keyed by message_id (members, message_references)
UpsertByMessageId(table, row) ==
    {x \in table : x.message_id # row.message_id} \cup {row}

\* INSERT OR REPLACE INTO referenced_messages: the key is the referenced
\* message's own id; a NULL key conflicts with no row
UpsertReferenced(table, row) ==
    IF row.id = Null
    THEN Append(table, row)
    ELSE Append(SelectSeq(table, LAMBDA x : x.id # row.id), row)

\* delete-then-insert: the message's earlier rows are cleared first
InsertClearing(table, row) ==
    Append(SelectSeq(table, LAMBDA x : x.message_id # row.message_id), row)

\* INSERT INTO a table with an AUTOINCREMENT key
Insert(table, row) == Append(table, row)

\* -------------------------------------------------------------- handler
\* a validation that tests the message only, not its id
RejectsNoMessageOnly(e) == ~Truthy(e.message.present)

Rejects(e) == ~Truthy(e.message.present) \/ ~Truthy(e.message.id)

AuthorStatements(r, e) ==
    IF Truthy(e.message.author.id) THEN {Stmt(r, "authors", 1)} ELSE {}

ListStatements(r, t, list) ==
    IF list.isArray THEN {Stmt(r, t, n) : n \in 1..Len(list.items)} ELSE {}

OneStatement(r, t, x) == IF Truthy(x.present) THEN {Stmt(r, t, 1)} ELSE {}

\* the statements the messages-upsert callback issues, one db.run each
ChildStatements(r, e) ==
    ListStatements(r, "attachments", e.message.attachments)
    \cup ListStatements(r, "embeds", e.message.embeds)
    \cup ListStatements(r, "components", e.message.components)
    \cup OneStatement(r, "members", e.message.member)
    \cup ListStatements(r, "mentions", e.message.mentions)
    \cup OneStatement(r, "message_references", e.message.message_reference)
    \cup OneStatement(r, "referenced_messages", e.message.referenced_message)

\* ------------------------------------------------- the plugin, constructed
\* message ids the page can show and MESSAGE_CREATE can carry
PluginIds == {"m1", "m2", "m3", "m4", "m5", "m6", "m7"}

PluginAuthors == {"A1", "A2"}

maxUserMessages == 10

messagesToProcessPerBatch == 5

\* the fields the constructor sets, empty localStorage and an empty page;
\* sent counts the classifier requests per message id and per run of the
\* plugin (the time from a start() to the stop() that follows) in which
\* they are made, up to MaxSent; indicators are the messages on the page
\* with a .custom-text span, shown those whose span shows a classification;
\* active counts the runs of processCurrentChannelMessages under way, errors
\* the console.error lines of its catch block, calls the direct
\* addUserMessage calls made so far: their number and, per user, the
\* non-empty contents they passed
Constructed ==
    [ processedMessages |-> {},
      messageTones |-> {},
      userMessages |-> [a \in PluginAuthors |-> << >>],
      currentChannelId |-> Null,
      processingBatch |-> FALSE,
      running |-> FALSE,
      runs |-> 0,
      storage |-> {},
      dom |-> {},
      indicators |-> {},
      shown |-> {},
      timers |-> 0,
      active |-> 0,
      errors |-> 0,
      calls |-> [count |-> 0, passed |-> [a \in PluginAuthors |-> << >>]],
      events |-> 0,
      batch |-> [pc |-> "idle", rest |-> << >>],
      tasks |-> {},
      sent |-> [m \in PluginIds |-> [r \in 1..MaxRuns |-> 0]] ]

Init ==
    /\ messages = {}
    /\ authors = {}
    /\ attachments = << >>
    /\ embeds = << >>
    /\ components = << >>
    /\ members = {}
    /\ mentions = << >>
    /\ message_references = {}
    /\ referenced_messages = << >>
    /\ user_insights = {}
    /\ requests = << >>
    /\ pending = {}
    /\ applied = {}
    /\ failed = {}
    /\ lastUpsert = [m \in MsgIds |-> 0]
    /\ ctx = NoCall
    /\ plugin = Constructed
    /\ detail = NoDetail
    /\ lookup = NoLookup
    /\ insight = NoInsight

\* a handler that answers before the upsert has run
PostMessagesEager(e) ==
    /\ Len(requests) < MaxReq
    /\ LET r == Len(requests) + 1 IN
       IF Rejects(e)
       THEN /\ requests' = Append(requests,
                   [env |-> e, pc |-> "done", err |-> FALSE,
                    res |-> [status |-> 400, success |-> FALSE]])
            /\ pending' = pending
       ELSE /\ requests' = Append(requests,
                   [env |-> e, pc |-> "upsert", err |-> FALSE,
                    res |-> [status |-> 200, success |-> TRUE]])
            /\ pending' = pending \cup AuthorStatements(r, e) \cup {Stmt(r, "messages", 1)}
    /\ UNCHANGED << plugin, readers, tables, applied, failed, lastUpsert >>

\* app.post('/messages'): the synchronous part of the handler
PostMessages(e) ==
    /\ Len(requests) < MaxReq
    /\ LET r == Len(requests) + 1 IN
       IF Rejects(e)
       THEN /\ requests' = Append(requests,
                   [env |-> e, pc |-> "done", err |-> FALSE,
                    res |-> [status |-> 400, success |-> FALSE]])
            /\ pending' = pending
       ELSE /\ requests' = Append(requests,
                   [env |-> e, pc |-> "upsert", err |-> FALSE, res |-> NoResponse])
            /\ pending' = pending \cup AuthorStatements(r, e) \cup {Stmt(r, "messages", 1)}
    /\ UNCHANGED << plugin, readers, tables, applied, failed, lastUpsert >>

Executed(s) ==
    /\ s \in pending
    /\ pending' = pending \ {s}
    /\ applied' = applied \cup {s}
    /\ failed' = failed

\* an author upsert that keeps the stored row (INSERT OR IGNORE)
AuthorUpsertIgnoring(s) ==
    /\ s.tbl = "authors"
    /\ Executed(s)
    /\ authors' = UpsertByIdIgnoring(authors, AuthorRow(EnvOf(s)))
    /\ UNCHANGED << plugin, readers, messages, attachments, embeds, components, members, mentions,
                    message_references, referenced_messages, user_insights,
                    requests, lastUpsert >>

AuthorUpsert(s) ==
    /\ s.tbl = "authors"
    /\ Executed(s)
    /\ authors' = UpsertById(authors, AuthorRow(EnvOf(s)))
    /\ UNCHANGED << plugin, readers, messages, attachments, embeds, components, members, mentions,
                    message_references, referenced_messages, user_insights,
                    requests, lastUpsert >>

\* an upsert that keeps the stored content when the new content is NULL
MessageUpsertMerging(s) ==
    /\ s.tbl = "messages"
    /\ Executed(s)
    /\ LET row == MessageRow(EnvOf(s))
           old == {x \in messages : x.id = row.id}
       IN messages' = (messages \ old)
                      \cup {IF row.content = Null /\ old # {}
                             THEN [row EXCEPT !.content = (CHOOSE x \in old : TRUE).content]
                             ELSE row}
    /\ requests' = [requests EXCEPT ![s.req].pc = "callback"]
    /\ lastUpsert' = [lastUpsert EXCEPT ![EnvOf(s).message.id] = s.req]
    /\ UNCHANGED << plugin, readers, authors, attachments, embeds, components, members, mentions,
                    message_references, referenced_messages, user_insights >>

MessageUpsert(s) ==
    /\ s.tbl = "messages"
    /\ Executed(s)
    /\ messages' = UpsertById(messages, MessageRow(EnvOf(s)))
    /\ requests' = [requests EXCEPT ![s.req].pc = "callback"]
    /\ lastUpsert' = [lastUpsert EXCEPT ![EnvOf(s).message.id] = s.req]
    /\ UNCHANGED << plugin, readers, authors, attachments, embeds, components, members, mentions,
                    message_references, referenced_messages, user_insights >>

\* an insert that takes message.id from a variable shared by all requests
AttachmentInsertShared(s) ==
    /\ s.tbl = "attachments"
    /\ Executed(s)
    /\ attachments' = Insert(attachments,
           [AttachmentRow(EnvOf(s), s.n) EXCEPT
               !.message_id = requests[Len(requests)].env.message.id])
    /\ UNCHANGED << plugin, readers, messages, authors, embeds, components, members, mentions,
                    message_references, referenced_messages, user_insights,
                    requests, lastUpsert >>

AttachmentInsert(s) ==
    /\ s.tbl = "attachments"
    /\ Executed(s)
    /\ attachments' = Insert(attachments, AttachmentRow(EnvOf(s), s.n))
    /\ UNCHANGED << plugin, readers, messages, authors, embeds, components, members, mentions,
                    message_references, referenced_messages, user_insights,
                    requests, lastUpsert >>

EmbedInsert(s) ==
    /\ s.tbl = "embeds"
    /\ Executed(s)
    /\ embeds' = Insert(embeds, EmbedRow(EnvOf(s), s.n))
    /\ UNCHANGED << plugin, readers, messages, authors, attachments, components, members, mentions,
                    message_references, referenced_messages, user_insights,
                    requests, lastUpsert >>

ComponentInsert(s) ==
    /\ s.tbl = "components"
    /\ Executed(s)
    /\ components' = Insert(components, ComponentRow(EnvOf(s), s.n))
    /\ UNCHANGED << plugin, readers, messages, authors, attachments, embeds, members, mentions,
                    message_references, referenced_messages, user_insights,
                    requests, lastUpsert >>

MemberUpsert(s) ==
    /\ s.tbl = "members"
    /\ Executed(s)
    /\ members' = UpsertByMessageId(members, MemberRow(EnvOf(s)))
    /\ UNCHANGED << plugin, readers, messages, authors, attachments, embeds, components, mentions,
                    message_references, referenced_messages, user_insights,
                    requests, lastUpsert >>

MentionInsert(s) ==
    /\ s.tbl = "mentions"
    /\ Executed(s)
    /\ mentions' = Insert(mentions, MentionRow(EnvOf(s), s.n))
    /\ UNCHANGED << plugin, readers, messages, authors, attachments, embeds, components, members,
                    message_references, referenced_messages, user_insights,
                    requests, lastUpsert >>

MessageReferenceUpsert(s) ==
    /\ s.tbl = "message_references"
    /\ Executed(s)
    /\ message_references' = UpsertByMessageId(message_references, MessageReferenceRow(EnvOf(s)))
    /\ UNCHANGED << plugin, readers, messages, authors, attachments, embeds, components, members, mentions,
                    referenced_messages, user_insights, requests, lastUpsert >>

ReferencedMessageUpsert(s) ==
    /\ s.tbl = "referenced_messages"
    /\ Executed(s)
    /\ referenced_messages' = UpsertReferenced(referenced_messages, ReferencedMessageRow(EnvOf(s)))
    /\ UNCHANGED << plugin, readers, messages, authors, attachments, embeds, components, members, mentions,
                    message_references, user_insights, requests, lastUpsert >>

\* a rejected statement that takes the request's other statements with it
StatementFailsAborting(s) ==
    /\ s \in pending
    /\ Cardinality(failed) < MaxFail
    /\ pending' = {x \in pending : x.req # s.req}
    /\ failed' = failed \cup {s}
    /\ requests' = IF s.tbl = "messages"
                   THEN [requests EXCEPT ![s.req].pc = "callback", ![s.req].err = TRUE]
                   ELSE requests
    /\ UNCHANGED << plugin, readers, tables, applied, lastUpsert >>

\* a rejected messages upsert that undoes the request's author upsert, as a
\* transaction around the request would
StatementFailsRollingBack(s) ==
    /\ s \in pending
    /\ Cardinality(failed) < MaxFail
    /\ pending' = IF s.tbl = "messages"
                  THEN {x \in pending : x.req # s.req}
                  ELSE pending \ {s}
    /\ failed' = failed \cup {s}
    /\ requests' = IF s.tbl = "messages"
                   THEN [requests EXCEPT ![s.req].pc = "callback", ![s.req].err = TRUE]
                   ELSE requests
    /\ authors' = IF s.tbl = "messages" /\ Stmt(s.req, "authors", 1) \in applied
                  THEN {a \in authors : a.id # EnvOf(s).message.author.id}
                  ELSE authors
    /\ UNCHANGED << plugin, readers, messages, attachments, embeds, components, members, mentions,
                    message_references, referenced_messages, user_insights,
                    applied, lastUpsert >>

\* the engine rejects a statement: no row is written and the statement's
\* callback receives err
StatementFails(s) ==
    /\ s \in pending
    /\ Cardinality(failed) < MaxFail
    /\ pending' = pending \ {s}
    /\ failed' = failed \cup {s}
    /\ requests' = IF s.tbl = "messages"
                   THEN [requests EXCEPT ![s.req].pc = "callback", ![s.req].err = TRUE]
                   ELSE requests
    /\ UNCHANGED << plugin, readers, tables, applied, lastUpsert >>

\* a callback that goes on to the child inserts after a failed upsert
MessageCallbackNoReturn(r) ==
    /\ r \in 1..Len(requests)
    /\ requests[r].pc = "callback"
    /\ pending' = pending \cup ChildStatements(r, requests[r].env)
    /\ requests' = [requests EXCEPT ![r].pc = "done",
                      ![r].res = IF requests[r].err
                                 THEN [status |-> 500, success |-> FALSE]
                                 ELSE [status |-> 200, success |-> TRUE]]
    /\ UNCHANGED << plugin, readers, tables, applied, failed, lastUpsert >>

\* the callback of the messages upsert
MessageCallback(r) ==
    /\ r \in 1..Len(requests)
    /\ requests[r].pc = "callback"
    /\ IF requests[r].err
       THEN /\ requests' = [requests EXCEPT ![r].pc = "done",
                              ![r].res = [status |-> 500, success |-> FALSE]]
            /\ pending' = pending
       ELSE /\ pending' = pending \cup ChildStatements(r, requests[r].env)
            /\ requests' = [requests EXCEPT ![r].pc = "done",
                              ![r].res = [status |-> 200, success |-> TRUE]]
    /\ UNCHANGED << plugin, readers, tables, applied, failed, lastUpsert >>

Next ==
    \/ \E e \in Envelopes : PostMessages(e)
    \/ \E s \in pending : AuthorUpsert(s)
    \/ \E s \in pending : MessageUpsert(s)
    \/ \E s \in pending : AttachmentInsert(s)
    \/ \E s \in pending : EmbedInsert(s)
    \/ \E s \in pending : ComponentInsert(s)
    \/ \E s \in pending : MemberUpsert(s)
    \/ \E s \in pending : MentionInsert(s)
    \/ \E s \in pending : MessageReferenceUpsert(s)
    \/ \E s \in pending : ReferencedMessageUpsert(s)
    \/ \E s \in pending : StatementFails(s)
    \/ \E r \in 1..MaxReq : MessageCallback(r)

Spec == Init /\ [][Next]_vars
\* =========================================================================
\* The read side: getMessageContext, getChatLog and the GET endpoints
\* =========================================================================

\* ------------------------------------------------------- bounds (read side)
MaxChannel == 22   \* messages of one channel in the largest store

\* ----------------------------------------------------- program constants
ContextLimit == 20 \* LIMIT of contextSql
WindowMinutes == 5 \* half width of the insight window
BundleLimit == 20  \* bundles in the answer of the insight generation
MaxPosts == 21     \* messages of one user in the largest store
MaxPermuted == 3   \* rows up to which every load order is taken

\* ------------------------------------------------------------ timestamps
\* message_timestamp is TEXT.  TsName(k) stands for the ISO string of the
\* instant T + (k-1) minutes, all written in one format, so that their text
\* order is their time order; NULL sorts before every string.
\* the timestamp texts, in their text order: NULL, then "t1", "t2", ... for
\* minute k written in UTC, then one written with the offset +02:00, which
\* sorts last as text and denotes an instant two hours before its minute
ShiftedK == MaxChannel + 10
OffsetMinutes == 120

TsName(k) ==
    IF k = 0 THEN Null
    ELSE IF k = ShiftedK THEN "t" \o ToString(k) \o "+02:00"
    ELSE "t" \o ToString(k)

TsRank(t) == CHOOSE k \in 0..(MaxChannel + 10) : TsName(k) = t

\* created_at DEFAULT CURRENT_TIMESTAMP, "YYYY-MM-DD HH:MM:SS"
CreatedAt(k) == [date |-> "2025-01-01", hhmm |-> TsName(k), ss |-> "00"]

\* ----------------------------------------------------------------- stores
\* a messages row as stored: the bound values and the created_at default
StoredRow(id, ch, author, content, k, c) ==
    [id |-> id, channelId |-> ch, author_id |-> author, content |-> content,
     pinned |-> 0, message_timestamp |-> TsName(k), created_at |-> CreatedAt(c)]

SmallIds == {"m1", "m2", "m3"}

\* m1 is Ann's, m2 has no author, m3 names an author that is not stored
AuthorOfSmall(id) == IF id = "m1" THEN "A1" ELSE IF id = "m2" THEN Null ELSE "A2"
ContentOfSmall(id) == IF id = "m2" THEN Null ELSE id
CreatedOfSmall(id) == IF id = "m1" THEN 3 ELSE IF id = "m2" THEN 1 ELSE 2

SmallTimes == {0, 1, 2, 11, ShiftedK}
Channels == {"ch1", "ch2"}

SmallRows(id) ==
    {StoredRow(id, ch, AuthorOfSmall(id), ContentOfSmall(id), k, CreatedOfSmall(id)) :
        ch \in Channels, k \in SmallTimes}

\* every store of at most three messages, each in either channel at one of
\* the times NULL, T, T+1m, T+10m, or at the time written with an offset
SmallStores ==
    {UNION {pick[id] : id \in SmallIds} :
        pick \in {f \in [SmallIds -> {{}} \cup UNION {{{x} : x \in SmallRows(id)} : id \in SmallIds}] :
                     \A id \in SmallIds : f[id] \subseteq SmallRows(id)}}

BigId(i) == "b" \o ToString(i)

\* the time of the i-th message of a large channel
BigTime(layout, n, i) ==
    CASE layout = "asc" -> i
      [] layout = "desc" -> n + 1 - i
      [] layout = "tie" -> IF i < ContextLimit THEN i ELSE ContextLimit

Layouts == {"asc", "desc", "tie"}

\* one channel of n messages, and one message of another channel
BigStore(layout, n) ==
    {StoredRow(BigId(i), "ch1", IF i % 2 = 1 THEN "A1" ELSE Null, BigId(i),
               BigTime(layout, n, i), i) : i \in 1..n}
    \cup {StoredRow("m2", "ch2", Null, Null, 1, 1)}

BigStores == {BigStore(layout, n) : layout \in Layouts, n \in ContextLimit..MaxChannel}

AuthorStores == { {}, {[id |-> "A1", username |-> "ann", globalName |-> "Ann"]},
                  {[id |-> "A1", username |-> "ann", globalName |-> Null]} }

\* the ids a read request may name: stored ones and one that is never stored
RequestIds == SmallIds \cup {BigId(i) : i \in {1, ContextLimit, MaxChannel}} \cup {"m9"}

\* a request names a stored message, or "m9", which is never stored
Requestable(id) == id = "m9" \/ \E x \in messages : x.id = id

\* ------------------------------------------------------------------ joins
\* SELECT m.*, a.username, a.avatar, a.globalName
\* FROM messages m LEFT JOIN authors a ON m.author_id = a.id
\* created_at of the rows written within a behaviour: the engine's clock,
\* which does not reach the next minute while the behaviour lasts
IngestedAt == CreatedAt(1)

Joined(m) ==
    LET a == {x \in authors : x.id = m.author_id} IN
    [id |-> m.id, channelId |-> m.channelId, author_id |-> m.author_id,
     content |-> m.content, pinned |-> m.pinned,
     message_timestamp |-> m.message_timestamp,
     created_at |-> IF "created_at" \in DOMAIN m THEN m.created_at ELSE IngestedAt,
     username |-> IF a = {} THEN Null ELSE (CHOOSE x \in a : TRUE).username,
     globalName |-> IF a = {} THEN Null ELSE (CHOOSE x \in a : TRUE).globalName]

\* ORDER BY m.message_timestamp DESC
RECURSIVE SortedByTimestampDesc(_)
SortedByTimestampDesc(S) ==
    IF S = {} THEN {<< >>}
    ELSE LET most == {x \in S : \A y \in S :
                         TsRank(x.message_timestamp) >= TsRank(y.message_timestamp)}
         IN UNION {{<<x>> \o rest : rest \in SortedByTimestampDesc(S \ {x})} : x \in most}

\* the orders in which ORDER BY m.message_timestamp may return a set of rows:
\* ascending, rows of equal timestamp in any order
RECURSIVE SortedByTimestamp(_)
SortedByTimestamp(S) ==
    IF S = {} THEN {<< >>}
    ELSE LET least == {x \in S : \A y \in S :
                          TsRank(x.message_timestamp) <= TsRank(y.message_timestamp)}
         IN UNION {{<<x>> \o rest : rest \in SortedByTimestamp(S \ {x})} : x \in least}

Take(seq, n) == SubSeq(seq, 1, IF Len(seq) < n THEN Len(seq) ELSE n)

\* msgSql of getMessageContext: the rows db.get may pass to its callback
MsgSqlRows(id) == {Joined(m) : m \in {x \in messages : x.id = id}}

\* contextSql without its `m.id != ?` condition
ContextSqlResultsWithTarget(channelId, id) ==
    {Take(s, ContextLimit) :
        s \in SortedByTimestamp({Joined(m) : m \in {x \in messages : x.channelId = channelId}})}

\* contextSql of getMessageContext: the results db.all may pass to its callback
ContextSqlResults(channelId, id) ==
    {Take(s, ContextLimit) :
        s \in SortedByTimestamp({Joined(m) :
                m \in {x \in messages : x.channelId = channelId /\ x.id # id}})}

\* ---------------------------------------------------------- getChatLog
\* new Date(msg.message_timestamp).getTime(), in minutes; NULL is the epoch
\* a sort that leaves the array as it is
StableSortKeeping(seq) == seq

GetTime(t) ==
    IF t = Null THEN 0 - 1000000
    ELSE IF t = TsName(ShiftedK) THEN TsRank(t) - OffsetMinutes
    ELSE TsRank(t)

\* Array.prototype.sort with the comparator of getChatLog: a stable sort
RECURSIVE StableSort(_)
StableSort(seq) ==
    IF seq = << >> THEN << >>
    ELSE LET i == CHOOSE j \in 1..Len(seq) :
                     /\ \A k \in 1..Len(seq) :
                           GetTime(seq[j].message_timestamp) <= GetTime(seq[k].message_timestamp)
                     /\ \A k \in 1..(j - 1) :
                           GetTime(seq[k].message_timestamp) # GetTime(seq[j].message_timestamp)
         IN <<seq[i]>> \o StableSort(SubSeq(seq, 1, i - 1) \o SubSeq(seq, i + 1, Len(seq)))

\* `[${timeString}] ${username}: ${msg.content}`, field by field
LogLine(msg) ==
    [timeString |-> msg.created_at.hhmm,
     username |-> IF Truthy(msg.globalName) THEN msg.globalName ELSE msg.username,
     content |-> msg.content]

LogLines(context) == [i \in 1..Len(StableSort(context)) |-> LogLine(StableSort(context)[i])]

\* ---------------------------------------------------- getMessageContext
ContextCallers == {"message-context", "log"}

\* GET /message-context/:messageId and GET /messages/log/:messageId: the
\* handler calls getMessageContext, which issues msgSql
CallGetMessageContext(caller, id) ==
    /\ AllIdle
    /\ Requestable(id)
    /\ ctx' = [NoCall EXCEPT !.caller = caller, !.id = id, !.pc = "get", !.queries = 1]
    /\ UNCHANGED << plugin, tables, ingestion, detail, lookup, insight >>

\* a callback that does not test `!message` and resolves with no context
MessageLoadedUnchecked(ok) ==
    /\ ctx.pc = "get"
    /\ IF ~ok
       THEN ctx' = [ctx EXCEPT !.pc = "rejected", !.error = "Database error"]
       ELSE IF MsgSqlRows(ctx.id) = {}
       THEN ctx' = [ctx EXCEPT !.pc = "resolved", !.queries = 2]
       ELSE \E row \in MsgSqlRows(ctx.id) :
               ctx' = [ctx EXCEPT !.pc = "all", !.message = <<row>>, !.queries = 2]
    /\ UNCHANGED << plugin, tables, ingestion, detail, lookup, insight >>

\* the callback of db.get(msgSql)
MessageLoaded(ok) ==
    /\ ctx.pc = "get"
    /\ IF ~ok
       THEN ctx' = [ctx EXCEPT !.pc = "rejected", !.error = "Database error"]
       ELSE IF MsgSqlRows(ctx.id) = {}
       THEN ctx' = [ctx EXCEPT !.pc = "rejected", !.error = "Message not found"]
       ELSE \E row \in MsgSqlRows(ctx.id) :
               ctx' = [ctx EXCEPT !.pc = "all", !.message = <<row>>, !.queries = 2]
    /\ UNCHANGED << plugin, tables, ingestion, detail, lookup, insight >>

\* the callback of db.all(contextSql)
ContextLoaded(ok) ==
    /\ ctx.pc = "all"
    /\ IF ~ok
       THEN ctx' = [ctx EXCEPT !.pc = "rejected", !.error = "Error fetching context messages"]
       ELSE \E rows \in ContextSqlResults(ctx.message[1].channelId, ctx.id) :
               ctx' = [ctx EXCEPT !.pc = "resolved", !.context = rows]
    /\ UNCHANGED << plugin, tables, ingestion, detail, lookup, insight >>

\* the value getMessageContext resolved with
MessageContext(c) ==
    [message |-> c.message[1], channel_id |-> c.message[1].channelId,
     context_messages |-> c.context, context_message_count |-> Len(c.context)]

\* app.get('/message-context/:messageId') after the await
MessageContextResponds ==
    /\ ctx.caller = "message-context"
    /\ ctx.pc \in {"resolved", "rejected"}
    /\ ctx' = [ctx EXCEPT !.pc = "responded",
                          !.status = IF ctx.pc = "resolved" THEN 200 ELSE 500]
    /\ UNCHANGED << plugin, tables, ingestion, detail, lookup, insight >>

\* getChatLog after the await, and app.get('/messages/log/:messageId')
\* answering with what it returned
ChatLogResponds ==
    /\ ctx.caller = "log"
    /\ ctx.pc \in {"resolved", "rejected"}
    /\ ctx' = [ctx EXCEPT !.pc = "responded", !.status = 200,
                          !.lines = IF ctx.pc = "resolved" THEN LogLines(ctx.context)
                                    ELSE << >>]
    /\ UNCHANGED << plugin, tables, ingestion, detail, lookup, insight >>

InitContext ==
    /\ messages \in SmallStores \cup BigStores
    /\ authors \in AuthorStores
    /\ attachments = << >>
    /\ embeds = << >>
    /\ components = << >>
    /\ members = {}
    /\ mentions = << >>
    /\ message_references = {}
    /\ referenced_messages = << >>
    /\ user_insights = {}
    /\ requests = << >>
    /\ pending = {}
    /\ applied = {}
    /\ failed = {}
    /\ lastUpsert = [m \in MsgIds |-> 0]
    /\ ctx = NoCall
    /\ plugin = Constructed
    /\ detail = NoDetail
    /\ lookup = NoLookup
    /\ insight = NoInsight

NextContext ==
    \/ \E caller \in ContextCallers, id \in RequestIds : CallGetMessageContext(caller, id)
    \/ \E ok \in BOOLEAN : MessageLoaded(ok)
    \/ \E ok \in BOOLEAN : ContextLoaded(ok)
    \/ MessageContextResponds
    \/ ChatLogResponds

SpecContext == InitContext /\ [][NextContext]_vars

\* ---------------------------------------------------------- read stores
\* stores for the GET endpoints: up to two messages with their children
M1 == StoredRow("m1", "ch1", "A1", "hello", 1, 1)
M2 == StoredRow("m2", "ch2", Null, Null, 2, 2)


BobRow == [id |-> "A2", username |-> "bob", globalName |-> Null]

NoRows ==
    [attachments |-> << >>, embeds |-> << >>, components |-> << >>, members |-> {},
     mentions |-> << >>, message_references |-> {}, referenced_messages |-> << >>]

\* the child rows of a store, by how much was ingested with its messages
ChildRows(fill) ==
    CASE fill = "some" ->
           [NoRows EXCEPT
              !.attachments = << [message_id |-> "m1", attachment_id |-> "f1", filename |-> "a.png"] >>,
              !.members = {[message_id |-> "m1", nick |-> "annie", deaf |-> 0]},
              !.referenced_messages =
                  << [id |-> "r1", parent_message_id |-> "m1", content |-> "first"] >>]
      [] fill = "many" ->
           [attachments |-> << [message_id |-> "m1", attachment_id |-> "f1", filename |-> "a.png"],
                               [message_id |-> "m2", attachment_id |-> Null, filename |-> Null],
                               [message_id |-> "m1", attachment_id |-> "f1", filename |-> "a.png"] >>,
            embeds |-> << [message_id |-> "m2", title |-> "news"] >>,
            components |-> << [message_id |-> "m1", label |-> "ok", disabled |-> 1] >>,
            members |-> {[message_id |-> "m1", nick |-> "annie", deaf |-> 0],
                         [message_id |-> "m2", nick |-> Null, deaf |-> 1]},
            mentions |-> << [message_id |-> "m1", user_id |-> "A1"] >>,
            message_references |-> {[message_id |-> "m1", ref_message_id |-> "r1"]},
            referenced_messages |->
                << [id |-> "r1", parent_message_id |-> "m1", content |-> "first"],
                   [id |-> "r2", parent_message_id |-> "m1", content |-> Null] >>]
      [] OTHER -> NoRows

Fills == {"none", "some", "many"}

\* the message ids the child rows of a fill point to
FillNeeds(fill) ==
    CASE fill = "some" -> {"m1"} [] fill = "many" -> {"m1", "m2"} [] OTHER -> {}

M3 == StoredRow("m3", "ch1", "A1", "again", 3, 3)
M5 == StoredRow("m5", "ch1", "A2", "far", 11, 5)

\* a timestamp text that new Date() cannot parse
Garbage == "yesterday"

M4 == [StoredRow("m4", "ch3", "A1", "late", 4, 4) EXCEPT !.message_timestamp = Garbage]

PostId(i) == "u" \o ToString(i)

\* a user with more messages than the answer of the insight generation
\* holds, posted in two channels and once with no channel
CrowdStore ==
    {StoredRow(PostId(i),
               IF i = 1 THEN Null ELSE IF i % 2 = 0 THEN "ch1" ELSE "ch2",
               "A1", "post", i, i) : i \in 1..MaxPosts}

ReadMessageStores ==
    { {}, {M1}, {M1, M2}, {M1, M2, M3, M5}, {M1, M2, M3, M4, M5}, CrowdStore }
ReadAuthorStores == { {}, {Ann}, {Ann, BobRow} }

\* ------------------------------------------------- GET /messages/:id
\* the keys of `queries`
DetailKeys == {"attachments", "embeds", "components", "member", "mentions",
               "message_reference", "referenced_message"}

SetToSeq(S) ==
    LET RECURSIVE Build(_)
        Build(T) == IF T = {} THEN << >>
                    ELSE LET x == CHOOSE y \in T : TRUE IN <<x>> \o Build(T \ {x})
    IN Build(S)

\* the rows each of the seven queries selects for a message id
DetailRows(key, id) ==
    CASE key = "attachments" -> SelectSeq(attachments, LAMBDA x : x.message_id = id)
      [] key = "embeds" -> SelectSeq(embeds, LAMBDA x : x.message_id = id)
      [] key = "components" -> SelectSeq(components, LAMBDA x : x.message_id = id)
      [] key = "member" -> SetToSeq({x \in members : x.message_id = id})
      [] key = "mentions" -> SelectSeq(mentions, LAMBDA x : x.message_id = id)
      [] key = "message_reference" -> SetToSeq({x \in message_references : x.message_id = id})
      [] key = "referenced_message" ->
             SelectSeq(referenced_messages, LAMBDA x : x.parent_message_id = id)

\* results[key] = { error: err.message }
ErrorMarker == [error |-> TRUE, rows |-> << >>]

\* results[key] = rows
RowsSlot(rows) == [error |-> FALSE, rows |-> rows]

Response(status, message, slots) == [status |-> status, message |-> message, slots |-> slots]

NoSlots == [k \in {} |-> ErrorMarker]

\* app.get('/messages/:id'): the handler issues msgSql
DetailRequest(id) ==
    /\ AllIdle
    /\ Requestable(id)
    /\ detail' = [NoDetail EXCEPT !.id = id, !.pc = "get"]
    /\ UNCHANGED << plugin, tables, ingestion, ctx, lookup, insight >>

\* the callback of db.get(msgSql): an error, a miss, or the fan-out of the
\* seven queries
DetailMessageLoaded(ok) ==
    /\ detail.pc = "get"
    /\ IF ~ok
       THEN detail' = [detail EXCEPT !.pc = "done",
                          !.responses = <<Response(500, << >>, NoSlots)>>]
       ELSE IF MsgSqlRows(detail.id) = {}
       THEN detail' = [detail EXCEPT !.pc = "done",
                          !.responses = <<Response(404, << >>, NoSlots)>>]
       ELSE \E row \in MsgSqlRows(detail.id) :
               detail' = [detail EXCEPT !.pc = "fan", !.message = <<row>>,
                             !.waiting = DetailKeys,
                             !.pending = Cardinality(DetailKeys),
                             !.results = NoSlots]
    /\ UNCHANGED << plugin, tables, ingestion, ctx, lookup, insight >>

\* a callback that answers when the query issued last comes back
DetailQueryDoneLastKey(key, ok) ==
    /\ detail.pc = "fan"
    /\ key \in detail.waiting
    /\ LET slot == IF ok THEN RowsSlot(DetailRows(key, detail.id)) ELSE ErrorMarker
           results == [k \in DOMAIN detail.results \cup {key} |->
                          IF k = key THEN slot ELSE detail.results[k]]
       IN detail' = [detail EXCEPT
                        !.waiting = @ \ {key},
                        !.failed = IF ok THEN @ ELSE @ \cup {key},
                        !.pending = @ - 1,
                        !.results = results,
                        !.responses = IF key = "referenced_message"
                                      THEN Append(@, Response(200, detail.message, results))
                                      ELSE @]
    /\ UNCHANGED << plugin, tables, ingestion, ctx, lookup, insight >>

\* a callback that answers 500 on the first failed query, as the other
\* handlers do
DetailQueryDoneAborting(key, ok) ==
    /\ detail.pc = "fan"
    /\ key \in detail.waiting
    /\ LET slot == IF ok THEN RowsSlot(DetailRows(key, detail.id)) ELSE ErrorMarker
           results == [k \in DOMAIN detail.results \cup {key} |->
                          IF k = key THEN slot ELSE detail.results[k]]
           left == detail.pending - 1
       IN detail' = [detail EXCEPT
                        !.pc = IF ok THEN @ ELSE "done",
                        !.waiting = @ \ {key},
                        !.failed = IF ok THEN @ ELSE @ \cup {key},
                        !.pending = left,
                        !.results = results,
                        !.responses = IF ~ok
                                      THEN Append(@, Response(500, << >>, NoSlots))
                                      ELSE IF left = 0
                                      THEN Append(@, Response(200, detail.message, results))
                                      ELSE @]
    /\ UNCHANGED << plugin, tables, ingestion, ctx, lookup, insight >>

\* the callback of one of the seven db.all queries
DetailQueryDone(key, ok) ==
    /\ detail.pc = "fan"
    /\ key \in detail.waiting
    /\ LET slot == IF ok THEN RowsSlot(DetailRows(key, detail.id)) ELSE ErrorMarker
           results == [k \in DOMAIN detail.results \cup {key} |->
                          IF k = key THEN slot ELSE detail.results[k]]
           left == detail.pending - 1
       IN detail' = [detail EXCEPT
                        !.waiting = @ \ {key},
                        !.failed = IF ok THEN @ ELSE @ \cup {key},
                        !.pending = left,
                        !.results = results,
                        !.responses = IF left = 0
                                      THEN Append(@, Response(200, detail.message, results))
                                      ELSE @]
    /\ UNCHANGED << plugin, tables, ingestion, ctx, lookup, insight >>

\* ------------------------------------------- single-query GET endpoints
ListEndpoints == {"messages", "messages/user", "authors", "attachments", "embeds",
                  "components", "mentions", "user_insights"}
RowEndpoints == {"authors/:id", "member", "message-reference", "referenced-message"}

UserIds == {"A1", "A2", "A9"}

\* the parameter values of an endpoint
Params(endpoint) ==
    CASE endpoint \in {"messages", "authors"} -> {Undefined}
      [] endpoint \in {"messages/user", "authors/:id", "user_insights"} -> UserIds
      [] OTHER -> {"m1", "m2", "m9"}

\* text order of the usernames, for ORDER BY username
NameRank(n) == IF n = "ann" THEN 1 ELSE IF n = "bob" THEN 2 ELSE 0

NewerFirst(a, b) == TsRank(a.created_at.hhmm) > TsRank(b.created_at.hhmm)
ByUsername(a, b) == NameRank(a.username) < NameRank(b.username)

\* whether row a comes before row b under an ORDER BY clause
Before(clause, a, b) ==
    CASE clause = "created_at DESC" -> NewerFirst(a, b)
      [] clause = "username" -> ByUsername(a, b)
      [] OTHER -> FALSE

\* rows of S in the order of the clause, ties in the order CHOOSE takes
RECURSIVE OrderBy(_, _)
OrderBy(S, clause) ==
    IF S = {} THEN << >>
    ELSE LET x == CHOOSE y \in S : \A z \in S : ~Before(clause, z, y)
         IN <<x>> \o OrderBy(S \ {x}, clause)

\* the rows the query of an endpoint selects; db.get passes the first of them
Selected(endpoint, param) ==
    CASE endpoint = "messages" -> OrderBy({Joined(m) : m \in messages}, "created_at DESC")
      [] endpoint = "messages/user" ->
             OrderBy({Joined(m) : m \in {x \in messages : x.author_id = param}}, "created_at DESC")
      [] endpoint = "authors" -> OrderBy(authors, "username")
      [] endpoint = "authors/:id" -> SetToSeq({a \in authors : a.id = param})
      [] endpoint = "attachments" -> DetailRows("attachments", param)
      [] endpoint = "embeds" -> DetailRows("embeds", param)
      [] endpoint = "components" -> DetailRows("components", param)
      [] endpoint = "member" -> DetailRows("member", param)
      [] endpoint = "mentions" -> DetailRows("mentions", param)
      [] endpoint = "message-reference" -> DetailRows("message_reference", param)
      [] endpoint = "referenced-message" -> DetailRows("referenced_message", param)
      [] endpoint = "user_insights" ->
             OrderBy({x \in user_insights : x.user_id = param}, "insight_name")

\* a GET handler that runs one query: the handler issues it; a lookup may
\* follow a finished insight generation
LookupRequest(endpoint, param) ==
    /\ ctx.pc = "idle" /\ detail.pc = "idle" /\ lookup.pc = "idle"
    /\ insight.pc \in {"idle", "done"}
    /\ param \in Params(endpoint)
    /\ lookup' = [NoLookup EXCEPT !.endpoint = endpoint, !.param = param, !.pc = "query"]
    /\ UNCHANGED << plugin, tables, ingestion, ctx, detail, insight >>

\* callbacks that answer 404 whenever no row was selected
LookupDoneStrict(ok) ==
    /\ lookup.pc = "query"
    /\ LET rows == Selected(lookup.endpoint, lookup.param) IN
       lookup' =
         IF ~ok THEN [lookup EXCEPT !.pc = "done", !.err = TRUE, !.status = 500]
         ELSE IF rows = << >>
         THEN [lookup EXCEPT !.pc = "done", !.status = 404]
         ELSE [lookup EXCEPT !.pc = "done", !.status = 200,
                 !.rows = IF lookup.endpoint \in RowEndpoints THEN Take(rows, 1) ELSE rows]
    /\ UNCHANGED << plugin, tables, ingestion, ctx, detail, insight >>

\* a GET /authors/:id that stores a placeholder for an author it does not
\* find
LookupDoneTouching(ok) ==
    /\ lookup.pc = "query"
    /\ LET rows == Selected(lookup.endpoint, lookup.param) IN
       /\ lookup' =
            IF ~ok THEN [lookup EXCEPT !.pc = "done", !.err = TRUE, !.status = 500]
            ELSE IF lookup.endpoint = "authors/:id" /\ rows = << >>
            THEN [lookup EXCEPT !.pc = "done", !.status = 404]
            ELSE [lookup EXCEPT !.pc = "done", !.status = 200,
                    !.rows = IF lookup.endpoint \in RowEndpoints THEN Take(rows, 1) ELSE rows]
       /\ authors' = IF ok /\ lookup.endpoint = "authors/:id" /\ rows = << >>
                     THEN authors \cup {[id |-> lookup.param, username |-> Null,
                                          globalName |-> Null]}
                     ELSE authors
    /\ UNCHANGED << messages, attachments, embeds, components, members, mentions,
                    message_references, referenced_messages, user_insights >>
    /\ UNCHANGED << plugin, ingestion, ctx, detail, insight >>

\* the query's callback sends the response
LookupDone(ok) ==
    /\ lookup.pc = "query"
    /\ LET rows == Selected(lookup.endpoint, lookup.param) IN
       lookup' =
         IF ~ok THEN [lookup EXCEPT !.pc = "done", !.err = TRUE, !.status = 500]
         ELSE IF lookup.endpoint = "authors/:id" /\ rows = << >>
         THEN [lookup EXCEPT !.pc = "done", !.status = 404]
         ELSE [lookup EXCEPT !.pc = "done", !.status = 200,
                 !.rows = IF lookup.endpoint \in RowEndpoints THEN Take(rows, 1) ELSE rows]
    /\ UNCHANGED << plugin, tables, ingestion, ctx, detail, insight >>

\* ------------------------------- POST /user_insights/generate/:user_id
\* the orders in which a query without ORDER BY may return a set of rows
RECURSIVE Perms(_)
Perms(S) ==
    IF S = {} THEN {<< >>}
    ELSE UNION {{<<x>> \o rest : rest \in Perms(S \ {x})} : x \in S}

Reverse(seq) == [i \in 1..Len(seq) |-> seq[Len(seq) + 1 - i]]

\* the orders in which the SELECT of a user's messages (no ORDER BY) may
\* return them: every order of a few rows, two orders of many
LoadOrders(S) ==
    IF Cardinality(S) <= MaxPermuted THEN Perms(S)
    ELSE UNION {{rows, Reverse(rows)} : rows \in SortedByTimestamp(S)}

\* new Date(t): null is the epoch, an unparsable text is an Invalid Date
ValidDate(t) == t # Garbage

\* m.message_timestamp BETWEEN fiveMinBefore AND fiveMinAfter
InWindow(t, centre) ==
    /\ t # Null /\ t # Garbage /\ centre # Null
    /\ TsRank(t) >= TsRank(centre) - WindowMinutes
    /\ TsRank(t) <= TsRank(centre) + WindowMinutes

\* the results relatedMsgSql may give for a user message
RelatedMsgSqlResults(msg) ==
    SortedByTimestamp({Joined(m) : m \in {x \in messages :
        /\ msg.channelId # Null /\ x.channelId = msg.channelId
        /\ InWindow(x.message_timestamp, msg.message_timestamp)
        /\ x.id # msg.id}})

InsightKeys == {"user_id", "message_count", "insights", "messages"}

InsightResponse(status, keys, count, insights, bundles) ==
    [status |-> status, keys |-> keys, message_count |-> count,
     insights |-> insights, messages |-> bundles]

ErrorResponse == InsightResponse(500, {"error"}, 0, << >>, << >>)

\* the `insights` array
Insights(userMessages) ==
    << [insight_name |-> "message_count",
        insight_value |-> ToString(Len(userMessages))],
       [insight_name |-> "channels_posted_in",
        insight_value |-> ToString(Cardinality({userMessages[i].channelId :
                                                  i \in DOMAIN userMessages}))] >>

\* a loop that issues the query of the following message with the current one
AdvancePipelined(ins) ==
    IF ins.k = Len(ins.userMessages)
    THEN [ins EXCEPT !.pc = "done",
            !.responses = Append(@, InsightResponse(200, InsightKeys, Len(ins.userMessages),
                                      Insights(ins.userMessages),
                                      Take(ins.messageWithContext, BundleLimit)))]
    ELSE IF ~ValidDate(ins.userMessages[ins.k + 1].message_timestamp)
    THEN [ins EXCEPT !.pc = "done", !.err = "date", !.responses = Append(@, ErrorResponse)]
    ELSE LET new == {q \in {ins.k + 1, ins.k + 2} :
                        q <= Len(ins.userMessages) /\ q \notin {ins.issued[i] : i \in DOMAIN ins.issued}}
         IN [ins EXCEPT !.pc = "await", !.outstanding = @ \cup new,
                        !.issued = @ \o SetToSeq(new)]

\* the for-of loop from its head to the next await, or past its end to the
\* response; an exception goes to the catch block
Advance(ins) ==
    IF ins.k = Len(ins.userMessages)
    THEN [ins EXCEPT !.pc = "done",
            !.responses = Append(@, InsightResponse(200, InsightKeys, Len(ins.userMessages),
                                      Insights(ins.userMessages),
                                      Take(ins.messageWithContext, BundleLimit)))]
    ELSE IF ~ValidDate(ins.userMessages[ins.k + 1].message_timestamp)
    THEN [ins EXCEPT !.pc = "done", !.err = "date", !.responses = Append(@, ErrorResponse)]
    ELSE [ins EXCEPT !.pc = "await", !.outstanding = @ \cup {ins.k + 1},
                     !.issued = Append(@, ins.k + 1)]

\* app.post('/user_insights/generate/:user_id'): the handler issues the
\* SELECT of the user's messages
GenerateInsights(user) ==
    /\ AllIdle
    /\ insight' = [NoInsight EXCEPT !.user = user, !.pc = "load"]
    /\ UNCHANGED << plugin, tables, ingestion, ctx, detail, lookup >>

\* a callback without the `userMessages.length === 0` branch
UserMessagesLoadedLooping(ok) ==
    /\ insight.pc = "load"
    /\ IF ~ok
       THEN insight' = [insight EXCEPT !.pc = "done", !.err = "load",
                           !.responses = <<ErrorResponse>>]
       ELSE \E rows \in LoadOrders({m \in messages : m.author_id = insight.user}) :
               insight' = Advance([insight EXCEPT !.userMessages = rows])
    /\ UNCHANGED << plugin, tables, ingestion, ctx, detail, lookup >>

\* the callback of the SELECT of the user's messages, up to the first await
UserMessagesLoaded(ok) ==
    /\ insight.pc = "load"
    /\ IF ~ok
       THEN insight' = [insight EXCEPT !.pc = "done", !.err = "load",
                           !.responses = <<ErrorResponse>>]
       ELSE \E rows \in LoadOrders({m \in messages : m.author_id = insight.user}) :
               IF Len(rows) = 0
               THEN insight' = [insight EXCEPT !.pc = "done",
                                  !.responses = <<InsightResponse(200,
                                      {"user_id", "message_count", "message"}, 0, << >>, << >>)>>]
               ELSE insight' = Advance([insight EXCEPT !.userMessages = rows])
    /\ UNCHANGED << plugin, tables, ingestion, ctx, detail, lookup >>

\* what the callback of a window query and the code after the await do to
\* the request
WindowQueryResult(q, ok) ==
    IF ~ok
    THEN {[insight EXCEPT !.pc = "done", !.err = "query",
             !.outstanding = @ \ {q}, !.completed = Append(@, q),
             !.responses = Append(@, ErrorResponse)]}
    ELSE {Advance([insight EXCEPT
                     !.outstanding = @ \ {q}, !.completed = Append(@, q),
                     !.k = @ + 1,
                     !.messageWithContext =
                         Append(@, [message |-> insight.userMessages[q],
                                    related_messages |-> rows])]) :
             rows \in RelatedMsgSqlResults(insight.userMessages[q])}

\* a generator that saves what it computed
WindowQueryDoneSaving(ok) ==
    /\ insight.pc = "await"
    /\ \E q \in insight.outstanding : insight' \in WindowQueryResult(q, ok)
    /\ user_insights' = IF insight'.responses # << >> /\ insight'.err = ""
                        THEN user_insights \cup
                               {[user_id |-> insight.user, insight_name |-> "message_count"]}
                        ELSE user_insights
    /\ UNCHANGED << messages, authors, attachments, embeds, components, members,
                    mentions, message_references, referenced_messages >>
    /\ UNCHANGED << plugin, ingestion, ctx, detail, lookup >>

\* the callback of a window query, and the loop up to the next await or the
\* response
WindowQueryDone(ok) ==
    /\ insight.pc = "await"
    /\ \E q \in insight.outstanding : insight' \in WindowQueryResult(q, ok)
    /\ UNCHANGED << plugin, tables, ingestion, ctx, detail, lookup >>

\* ------------------------------------------------ annotation endpoints
\* req.body of POST /messages/tone without a `message` property
NoToneMessage == "no message"

\* what ollama.chat may give: response.message.content, or a rejection
ChatReplies == {"{tone:[Joking]}", "{tone:[]}", "not json", "rejected"}

\* JSON.parse(response.message.content).tone: the tone list, or an exception
ParseTone(content) ==
    CASE content = "{tone:[Joking]}" -> [threw |-> FALSE, tone |-> "[Joking]"]
      [] content = "{tone:[]}" -> [threw |-> FALSE, tone |-> "[]"]
      [] OTHER -> [threw |-> TRUE, tone |-> ""]

\* app.post('/messages/tone') with a body that has no message:
\* message.message.id throws and the catch block answers
PostToneWithoutMessage ==
    /\ AllIdle
    /\ ctx' = [NoCall EXCEPT !.caller = "tone", !.id = NoToneMessage, !.pc = "responded",
                 !.raised = "body", !.status = 200, !.tone = "", !.replies = 1]
    /\ UNCHANGED << plugin, tables, ingestion, detail, lookup, insight >>

\* a handler that answers at once when there is no chat log
ToneChatShortCircuit ==
    /\ ctx.caller = "tone"
    /\ ctx.pc \in {"resolved", "rejected"}
    /\ ctx' = IF ctx.pc = "rejected"
              THEN [ctx EXCEPT !.pc = "responded", !.status = 200, !.tone = "",
                      !.replies = @ + 1]
              ELSE [ctx EXCEPT !.pc = "chat", !.lines = LogLines(ctx.context),
                      !.chats = @ + 1]
    /\ UNCHANGED << plugin, tables, ingestion, detail, lookup, insight >>

\* app.post('/messages/tone') after getChatLog returned: the chat log goes
\* to ollama.chat
ToneChat ==
    /\ ctx.caller = "tone"
    /\ ctx.pc \in {"resolved", "rejected"}
    /\ ctx' = [ctx EXCEPT !.pc = "chat",
                 !.lines = IF ctx.pc = "resolved" THEN LogLines(ctx.context) ELSE << >>,
                 !.chats = @ + 1]
    /\ UNCHANGED << plugin, tables, ingestion, detail, lookup, insight >>

\* a handler whose catch block answers 500
ToneRespondsFailing(content) ==
    /\ ctx.caller = "tone"
    /\ ctx.pc = "chat"
    /\ LET raised == IF content = "rejected" THEN "chat"
                     ELSE IF ParseTone(content).threw THEN "parse" ELSE ""
       IN ctx' = [ctx EXCEPT !.pc = "responded", !.reply = content, !.raised = raised,
                    !.status = IF raised = "" THEN 200 ELSE 500,
                    !.tone = IF raised = "" THEN ParseTone(content).tone ELSE "",
                    !.replies = @ + 1]
    /\ UNCHANGED << plugin, tables, ingestion, detail, lookup, insight >>

\* ollama.chat settled: res.json with the parsed tone, or the catch block's
\* res.json({ tone: "" })
ToneResponds(content) ==
    /\ ctx.caller = "tone"
    /\ ctx.pc = "chat"
    /\ LET raised == IF content = "rejected" THEN "chat"
                     ELSE IF ParseTone(content).threw THEN "parse" ELSE ""
       IN ctx' = [ctx EXCEPT !.pc = "responded", !.reply = content, !.raised = raised,
                    !.status = 200,
                    !.tone = IF raised = "" THEN ParseTone(content).tone ELSE "",
                    !.replies = @ + 1]
    /\ UNCHANGED << plugin, tables, ingestion, detail, lookup, insight >>

\* req.body.text of POST /messages/classifier
TextLists == {NotAList, List(<< >>), List(<< "hi" >>), List(<< "hi", "there" >>),
              List(<< "hi", Null, "" >>)}

\* an element as Array.prototype.join writes it
JoinItem(x) == IF x \in {Null, Undefined} THEN "" ELSE x

\* messages.text.join("\n")
RECURSIVE JoinLines(_)
JoinLines(items) ==
    IF items = << >> THEN ""
    ELSE IF Len(items) = 1 THEN JoinItem(items[1])
    ELSE JoinItem(items[1]) \o "\n" \o JoinLines(Tail(items))

\* what becomes of a request whose async handler rejected: the handler has
\* no try/catch, so the framework decides; Express 5 answers 500, Express 4
\* leaves the rejection unhandled and the request unanswered (status 0)
RejectedHandler == {500, 0}

\* a handler that does not call the classifier for an empty list
PostClassifierSkippingEmpty(texts) ==
    /\ AllIdle
    /\ IF ~texts.isArray
       THEN \E status \in RejectedHandler :
               lookup' = [NoLookup EXCEPT !.endpoint = "messages/classifier",
                            !.texts = texts, !.pc = "done", !.status = status]
       ELSE IF texts.items = << >>
       THEN lookup' = [NoLookup EXCEPT !.endpoint = "messages/classifier",
                         !.texts = texts, !.pc = "done", !.status = 200]
       ELSE lookup' = [NoLookup EXCEPT !.endpoint = "messages/classifier",
                         !.texts = texts, !.pc = "predict", !.calls = 1,
                         !.sent = JoinLines(texts.items)]
    /\ UNCHANGED << plugin, tables, ingestion, ctx, detail, insight >>

\* app.post('/messages/classifier') up to the awaited axios.post
PostClassifier(texts) ==
    /\ AllIdle
    /\ IF ~texts.isArray
       THEN \E status \in RejectedHandler :
               lookup' = [NoLookup EXCEPT !.endpoint = "messages/classifier",
                            !.texts = texts, !.pc = "done", !.status = status]
       ELSE lookup' = [NoLookup EXCEPT !.endpoint = "messages/classifier",
                         !.texts = texts, !.pc = "predict", !.calls = 1,
                         !.sent = JoinLines(texts.items)]
    /\ UNCHANGED << plugin, tables, ingestion, ctx, detail, insight >>

\* axios.post settled: res.json(response.data), or the handler rejects
ClassifierReplied(ok) ==
    /\ lookup.endpoint = "messages/classifier"
    /\ lookup.pc = "predict"
    /\ IF ok
       THEN lookup' = [lookup EXCEPT !.pc = "done", !.status = 200]
       ELSE \E status \in RejectedHandler :
               lookup' = [lookup EXCEPT !.pc = "done", !.err = TRUE, !.status = status]
    /\ UNCHANGED << plugin, tables, ingestion, ctx, detail, insight >>

\* ------------------------------------------------- the read side as a whole
Endpoints == ListEndpoints \cup RowEndpoints

AllParams == UserIds \cup {Undefined, "m1", "m2", "m9"}

\* a store POST /messages can have built, and no request yet
InitRead ==
    /\ messages \in ReadMessageStores
    /\ authors \in ReadAuthorStores
    /\ \E fill \in Fills :
          /\ FillNeeds(fill) \subseteq {m.id : m \in messages}
          /\ attachments = ChildRows(fill).attachments
          /\ embeds = ChildRows(fill).embeds
          /\ components = ChildRows(fill).components
          /\ members = ChildRows(fill).members
          /\ mentions = ChildRows(fill).mentions
          /\ message_references = ChildRows(fill).message_references
          /\ referenced_messages = ChildRows(fill).referenced_messages
    /\ user_insights = {}
    /\ requests = << >>
    /\ pending = {}
    /\ applied = {}
    /\ failed = {}
    /\ lastUpsert = [m \in MsgIds |-> 0]
    /\ ctx = NoCall
    /\ plugin = Constructed
    /\ detail = NoDetail
    /\ lookup = NoLookup
    /\ insight = NoInsight

NextRead ==
    \/ \E caller \in ContextCallers \cup {"tone"}, id \in RequestIds :
          CallGetMessageContext(caller, id)
    \/ \E ok \in BOOLEAN : MessageLoaded(ok)
    \/ \E ok \in BOOLEAN : ContextLoaded(ok)
    \/ MessageContextResponds
    \/ ChatLogResponds
    \/ PostToneWithoutMessage
    \/ ToneChat
    \/ \E content \in ChatReplies : ToneResponds(content)
    \/ \E texts \in TextLists : PostClassifier(texts)
    \/ \E ok \in BOOLEAN : ClassifierReplied(ok)
    \/ \E id \in RequestIds : DetailRequest(id)
    \/ \E ok \in BOOLEAN : DetailMessageLoaded(ok)
    \/ \E key \in DetailKeys, ok \in BOOLEAN : DetailQueryDone(key, ok)
    \/ \E endpoint \in Endpoints, param \in AllParams : LookupRequest(endpoint, param)
    \/ \E ok \in BOOLEAN : LookupDone(ok)
    \/ \E user \in UserIds : GenerateInsights(user)
    \/ \E ok \in BOOLEAN : UserMessagesLoaded(ok)
    \/ \E ok \in BOOLEAN : WindowQueryDone(ok)

SpecRead == InitRead /\ [][NextRead]_vars

\* ------------------------------------------- ingestion followed by a read
\* author objects of one user whose display name differs
Renamed == [Ann EXCEPT !.globalName = "Annie"]
Unnamed == [Ann EXCEPT !.globalName = Undefined]

EnvelopeBy(id, author) == [Envelope(id, 1, "none") EXCEPT !.message.author = author]

AuthorEnvelopes ==
    {EnvelopeBy(id, author) : id \in MsgIds, author \in {Ann, Renamed, Unnamed, NoAuthor}}

\* every request has been answered and every statement executed or rejected
Settled == pending = {} /\ \A r \in 1..Len(requests) : requests[r].pc = "done"

\* POST /messages requests served one after the other, then one call of
\* getMessageContext or getChatLog on the store they built
NextAuthor ==
    \/ \E e \in AuthorEnvelopes : Settled /\ ctx.pc = "idle" /\ PostMessages(e)
    \/ \E s \in pending : AuthorUpsert(s)
    \/ \E s \in pending : MessageUpsert(s)
    \/ \E s \in pending : StatementFails(s)
    \/ \E r \in 1..MaxReq : MessageCallback(r)
    \/ \E caller \in ContextCallers, id \in MsgIds :
          Settled /\ CallGetMessageContext(caller, id)
    \/ \E ok \in BOOLEAN : MessageLoaded(ok)
    \/ \E ok \in BOOLEAN : ContextLoaded(ok)
    \/ MessageContextResponds
    \/ ChatLogResponds

SpecAuthor == Init /\ [][NextAuthor]_vars

\* ===========================================================================
\* The plugin ToneIndicator
\* ===========================================================================
\* the author id an event carries and the data-author-id the page shows for a
\* message; the elements of m3, m4 and m5 have no data-author-id
AuthorOf(m) ==
    CASE m \in {"m1", "m2"} -> "A1"
      [] m \in {"m6", "m7"} -> "A2"
      [] OTHER -> Null

PluginChannels == {"c1", "c2"}

\* the messages the page shows for a channel
VisibleIn(c) == IF c = "c1" THEN PluginIds \ {"m7"} ELSE {"m7"}

ContentOf(m) == "text of " \o m

\* what a MESSAGE_CREATE event can carry: ids and contents
EventIds == {"m1", "m2"}

EventContents(m) == {"", ContentOf(m)}

\* what the page can show
Doms == { {}, VisibleIn("c1") }

ChannelDoms == { VisibleIn(c) : c \in PluginChannels }

\* querySelectorAll returns elements in document order
Position(m) == CHOOSE i \in 1..Cardinality(PluginIds) : m = "m" \o ToString(i)

RECURSIVE InDocumentOrder(_)
InDocumentOrder(S) ==
    IF S = {} THEN << >>
    ELSE LET first == CHOOSE m \in S : \A o \in S : Position(m) <= Position(o)
         IN << first >> \o InDocumentOrder(S \ {first})

Drop(seq, n) == SubSeq(seq, (IF Len(seq) < n THEN Len(seq) ELSE n) + 1, Len(seq))

ScanLimit == 50

\* injectCustomText: every message content element has a .custom-text span
\* afterwards, and the span of a classified message shows its classification
injectCustomText(p) ==
    [p EXCEPT !.indicators = @ \cup p.dom,
              !.shown = @ \cup (p.dom \cap p.messageTones)]

\* an addUserMessage that drops the newest message of a full list
addUserMessageDroppingNewest(p, userId, content) ==
    IF userId = Null \/ content = "" THEN p
    ELSE [p EXCEPT !.userMessages[userId] =
              LET userMsgs == Append(@, content)
              IN IF Len(userMsgs) > maxUserMessages
                 THEN SubSeq(userMsgs, 1, maxUserMessages)
                 ELSE userMsgs]

addUserMessage(p, userId, content) ==
    IF userId = Null \/ content = "" THEN p
    ELSE [p EXCEPT !.userMessages[userId] =
              LET userMsgs == Append(@, content)
              IN IF Len(userMsgs) > maxUserMessages THEN Tail(userMsgs) ELSE userMsgs]

\* a classifier request for message m is counted in the run it is made in
Counted(p, m) ==
    IF p.running
    THEN [p EXCEPT !.sent[m][p.runs] = IF @ < MaxSent THEN @ + 1 ELSE @]
    ELSE p

\* fetch(POST /messages/classifier) for message m
Send(p, m, path) ==
    [Counted(p, m) EXCEPT
              !.tasks = @ \cup {[id |-> m, path |-> path, pc |-> "classify", run |-> p.runs]}]

\* processExistingMessage up to its first await
processExistingMessage(p, m) ==
    IF m \in p.processedMessages THEN p
    ELSE LET q == [p EXCEPT !.processedMessages = @ \cup {m}]
         IN IF m \notin p.dom \/ AuthorOf(m) = Null THEN q
            ELSE Send(addUserMessage(q, AuthorOf(m), ContentOf(m)), m, "scan")

\* batch.map(item => this.processExistingMessage(item.id)): the calls run one
\* after the other, each up to its fetch
RECURSIVE ProcessBatch(_, _)
ProcessBatch(p, ids) ==
    IF ids = << >> THEN p
    ELSE CHOOSE r \in { ProcessBatch(q, rest) :
                            q \in {processExistingMessage(p, Head(ids))},
                            rest \in {Tail(ids)} } : TRUE

\* one turn of the for loop, up to await Promise.all
RunBatch(p, queue) ==
    CHOOSE r \in { [ProcessBatch(q, Take(ids, messagesToProcessPerBatch)) EXCEPT
                       !.batch = [pc |-> "await",
                                  rest |-> Drop(ids, messagesToProcessPerBatch)]] :
                   q \in {p}, ids \in {queue} } : TRUE

Unprocessed(p) == {m \in p.dom : m \notin p.processedMessages /\ m \notin p.messageTones}

\* a processCurrentChannelMessages that does not test processingBatch
processCurrentChannelMessagesUnguarded(p) ==
    IF Unprocessed(p) = {} THEN injectCustomText(p)
    ELSE RunBatch([injectCustomText(p) EXCEPT !.processingBatch = TRUE,
                                              !.active = @ + 1],
                  Take(InDocumentOrder(Unprocessed(p)), ScanLimit))

\* processCurrentChannelMessages up to its first await; with nothing to
\* process the run ends at once and processingBatch is false again
processCurrentChannelMessages(p) ==
    IF p.processingBatch THEN p
    ELSE IF Unprocessed(p) = {} THEN injectCustomText(p)
    ELSE RunBatch([injectCustomText(p) EXCEPT !.processingBatch = TRUE,
                                              !.active = @ + 1],
                  Take(InDocumentOrder(Unprocessed(p)), ScanLimit))

checkForNewUnprocessedMessages(p) ==
    IF p.processingBatch \/ Unprocessed(p) = {} THEN p
    ELSE processCurrentChannelMessages(p)

\* the MutationObserver callback, run after a step that added nodes under
\* the observed element while the observer is connected
Observed(before, after) ==
    IF after.running
       /\ ~ /\ after.dom \subseteq before.dom
            /\ after.indicators \subseteq before.indicators
            /\ after.shown \subseteq before.shown
    THEN checkForNewUnprocessedMessages(injectCustomText(after))
    ELSE after

server == << tables, ingestion, readers >>

\* start(): loadClassificationsFromStorage, then initialize()
start ==
    /\ ~plugin.running
    /\ plugin.runs < MaxRuns
    /\ plugin' = processCurrentChannelMessages(injectCustomText(
                     [plugin EXCEPT !.messageTones = @ \cup plugin.storage,
                                    !.running = TRUE,
                                    !.runs = @ + 1]))
    /\ UNCHANGED server

stop ==
    /\ plugin.running
    /\ plugin' = [plugin EXCEPT !.running = FALSE,
                                !.indicators = {},
                                !.shown = {},
                                !.messageTones = {},
                                !.processedMessages = {},
                                !.userMessages = [a \in PluginAuthors |-> << >>]]
    /\ UNCHANGED server

\* MESSAGE_CREATE: handleNewMessage up to await fetch(POST /messages)
handleNewMessage(m, content) ==
    /\ plugin.running
    /\ plugin.events < MaxEvents
    /\ plugin' =
          LET p == [plugin EXCEPT !.events = @ + 1] IN
          IF content = "" \/ m \in p.processedMessages THEN p
          ELSE [addUserMessage([p EXCEPT !.processedMessages = @ \cup {m}],
                               AuthorOf(m), content)
                EXCEPT !.tasks = @ \cup {[id |-> m, path |-> "create", pc |-> "register",
                                          run |-> p.runs]}]
    /\ UNCHANGED server

\* the fetch of POST /messages settles: resolved, whatever the status, the
\* handler goes on to the classifier request; rejected, it ends in catch
RegisterSettles(t, resolved) ==
    /\ t \in plugin.tasks
    /\ t.pc = "register"
    /\ plugin' =
          LET p == [plugin EXCEPT !.tasks = @ \ {t}] IN
          IF resolved
          THEN [Counted(p, t.id) EXCEPT
                         !.tasks = @ \cup {[t EXCEPT !.pc = "classify"]}]
          ELSE p
    /\ UNCHANGED server

ClassifierOutcomes == {"label", "no label", "rejected"}

\* the classifier request of a handler settles
ClassifierSettles(t, outcome) ==
    /\ t \in plugin.tasks
    /\ t.pc = "classify"
    /\ plugin' =
          LET p == [plugin EXCEPT !.tasks = @ \ {t}] IN
          IF outcome # "label" THEN p
          ELSE LET q == [p EXCEPT !.messageTones = @ \cup {t.id},
                                  !.storage = p.messageTones \cup {t.id}]
               IN IF t.path = "create" /\ t.id \in p.dom
                  THEN Observed(q, [q EXCEPT !.indicators = @ \cup {t.id},
                                             !.shown = @ \cup {t.id}])
                  ELSE q
    /\ UNCHANGED server

\* the page renders: the MutationObserver callback runs while connected
Render(d) ==
    /\ d # plugin.dom
    /\ plugin' =
          LET p == [plugin EXCEPT !.dom = d, !.indicators = @ \cap d, !.shown = @ \cap d] IN
          IF ~plugin.running THEN p
          ELSE IF d \ plugin.dom = {} THEN injectCustomText(p)
          ELSE checkForNewUnprocessedMessages(injectCustomText(p))
    /\ UNCHANGED server

\* CHANNEL_SELECT
handleChannelSwitch(c) ==
    /\ plugin.running
    /\ plugin.timers < MaxTimers
    /\ plugin' = IF c = Null \/ plugin.currentChannelId = c THEN plugin
                 ELSE [plugin EXCEPT !.currentChannelId = c, !.timers = @ + 1]
    /\ UNCHANGED server

\* setTimeout(() => this.processCurrentChannelMessages(), 1000) is due
SwitchTimerFires ==
    /\ plugin.timers > 0
    /\ \E p \in {[plugin EXCEPT !.timers = @ - 1]} :
          \E q \in {processCurrentChannelMessages(p)} : plugin' = Observed(p, q)
    /\ UNCHANGED server

\* Promise.all of the batch has resolved: injectCustomText, then the delay
\* before the next batch or the end of the run
\* or, when injectCustomText throws, catch and finally
BatchSettled(threw) ==
    /\ plugin.batch.pc = "await"
    /\ ~\E t \in plugin.tasks : t.path = "scan"
    /\ threw => plugin.errors < MaxThrows
    /\ plugin' =
          IF threw
          THEN [plugin EXCEPT !.errors = @ + 1,
                              !.batch = [pc |-> "idle", rest |-> << >>],
                              !.active = @ - 1,
                              !.processingBatch = FALSE]
          ELSE IF plugin.batch.rest # << >>
          THEN Observed(plugin, [injectCustomText(plugin) EXCEPT !.batch.pc = "delay"])
          ELSE Observed(plugin, [injectCustomText(plugin) EXCEPT
                                     !.batch.pc = "idle",
                                     !.active = @ - 1,
                                     !.processingBatch = FALSE])
    /\ UNCHANGED server

BatchDelayElapsed ==
    /\ plugin.batch.pc = "delay"
    /\ plugin' = RunBatch(plugin, plugin.batch.rest)
    /\ UNCHANGED server

NextPlugin ==
    \/ start
    \/ stop
    \/ \E m \in EventIds : \E content \in EventContents(m) : handleNewMessage(m, content)
    \/ \E t \in [id : PluginIds, path : {"create"}, pc : {"register"}, run : 1..MaxRuns] :
          \E resolved \in BOOLEAN : RegisterSettles(t, resolved)
    \/ \E t \in [id : PluginIds, path : {"create", "scan"}, pc : {"classify"}, run : 1..MaxRuns] :
          \E outcome \in ClassifierOutcomes : ClassifierSettles(t, outcome)
    \/ \E d \in Doms : Render(d)
    \/ BatchSettled(FALSE)
    \/ BatchDelayElapsed

SpecPlugin == Init /\ [][NextPlugin]_vars

\* ------------------------------------------------ addUserMessage, called
\* the content of the n-th call, when it is not empty
ContentNo(n) == "c" \o ToString(n)

\* one call of addUserMessage, with an empty content or a new one
AddUserMessageCalled(userId, empty) ==
    /\ plugin.calls.count < MaxCalls
    /\ \E content \in {IF empty THEN "" ELSE ContentNo(plugin.calls.count + 1)} :
          plugin' =
             [addUserMessage(plugin, userId, content) EXCEPT
                 !.calls.count = @ + 1,
                 !.calls.passed = IF userId \in PluginAuthors /\ content # ""
                                  THEN [@ EXCEPT ![userId] = Append(@, content)]
                                  ELSE @]
    /\ UNCHANGED server

NextUserMessages ==
    \E userId \in PluginAuthors \cup {Null} :
        \E empty \in BOOLEAN : AddUserMessageCalled(userId, empty)

SpecUserMessages == Init /\ [][NextUserMessages]_vars

\* ------------------------------------------- scans and channel switches
ScanTasks == [id : PluginIds, path : {"scan"}, pc : {"classify"}, run : 1..MaxRuns]

\* a classifier request of the scan settles
ScanRequestSettles ==
    \E t \in ScanTasks : \E outcome \in ClassifierOutcomes : ClassifierSettles(t, outcome)

\* the run goes on after await Promise.all
BatchResumes == \E threw \in BOOLEAN : BatchSettled(threw)

NextScan ==
    \/ start
    \/ \E d \in ChannelDoms \cup {{}} : Render(d)
    \/ \E c \in PluginChannels \cup {Null} : handleChannelSwitch(c)
    \/ SwitchTimerFires
    \/ ScanRequestSettles
    \/ BatchResumes
    \/ BatchDelayElapsed

SpecScan == Init /\ [][NextScan]_vars

\* every fetch settles, every timer fires and every resumed function runs on
FairScan ==
    /\ SpecScan
    /\ WF_vars(ScanRequestSettles)
    /\ WF_vars(BatchResumes)
    /\ WF_vars(BatchDelayElapsed)
    /\ WF_vars(SwitchTimerFires)

\* ------------------------------------------------------------- helpers
Range(f) == {f[i] : i \in DOMAIN f}

IsPrefix(s, t) == Len(s) <= Len(t) /\ \A i \in 1..Len(s) : s[i] = t[i]

\* the rows of a sequence-table, with multiplicity, without their position
BagOf(s) == [x \in Range(s) |-> Cardinality({i \in DOMAIN s : s[i] = x})]

Reqs == 1..Len(requests)

\* the row a statement writes
RowOf(s) ==
    CASE s.tbl = "attachments" -> AttachmentRow(EnvOf(s), s.n)
      [] s.tbl = "embeds" -> EmbedRow(EnvOf(s), s.n)
      [] s.tbl = "components" -> ComponentRow(EnvOf(s), s.n)
      [] s.tbl = "mentions" -> MentionRow(EnvOf(s), s.n)

ListTable(t) ==
    CASE t = "attachments" -> attachments
      [] t = "embeds" -> embeds
      [] t = "components" -> components
      [] t = "mentions" -> mentions

ListTables == {"attachments", "embeds", "components", "mentions"}

\* ---------------------------------------------------------------- C1
\* C1: the messages table holds at most one row per message id, and that
\* row is exactly the row bound by the request whose messages upsert was
\* executed last for that id; an id no upsert was executed for has no row.
C1_LastWriteWins ==
    \A m \in MsgIds :
        LET rows == {x \in messages : x.id = m} IN
        /\ Cardinality(rows) <= 1
        /\ IF lastUpsert[m] = 0
           THEN rows = {}
           ELSE rows = {MessageRow(requests[lastUpsert[m]].env)}

\* two ingestions of one id with different scalar fields have both been executed
C1_Witness ==
    \E m \in MsgIds : \E r1, r2 \in Reqs :
        /\ Stmt(r1, "messages", 1) \in applied
        /\ Stmt(r2, "messages", 1) \in applied
        /\ requests[r1].env.message.id = m
        /\ requests[r2].env.message.id = m
        /\ MessageRow(requests[r1].env).content # MessageRow(requests[r2].env).content
        /\ lastUpsert[m] = r2

\* ---------------------------------------------------------------- C2
\* C2: no step removes or replaces a row of attachments, embeds, components
\* or mentions (each table only grows at its end), and each table holds,
\* with multiplicity, exactly one row per executed insert statement, so a
\* payload posted twice has its children twice.
C2_RowsMatchInserts ==
    \A t \in ListTables :
        /\ Len(ListTable(t)) = Cardinality({s \in applied : s.tbl = t})
        /\ \A x \in Range(ListTable(t)) :
               BagOf(ListTable(t))[x] = Cardinality({s \in applied : s.tbl = t /\ RowOf(s) = x})

C2_ChildrenAccumulate ==
    /\ []C2_RowsMatchInserts
    /\ [][/\ IsPrefix(attachments, attachments')
          /\ IsPrefix(embeds, embeds')
          /\ IsPrefix(components, components')
          /\ IsPrefix(mentions, mentions')]_vars

\* the same payload was ingested twice and its attachment is stored twice
C2_Witness ==
    /\ Len(requests) = 2
    /\ requests[1].env = requests[2].env
    /\ \E x \in Range(attachments) : BagOf(attachments)[x] = 2
    /\ Len(attachments) = 4

\* ---------------------------------------------------------------- C3
\* C3: a request whose envelope has no message, or a message without id, is
\* answered 400 with success=false, no statement is ever issued for it, and
\* no table holds a row keyed by an absent id.
AbsentId(e) == e.message.present = "false" \/ e.message.id = Undefined

C3_RejectedWritesNothing ==
    /\ \A r \in Reqs :
           AbsentId(requests[r].env) =>
               /\ requests[r].res = [status |-> 400, success |-> FALSE]
               /\ \A s \in pending \cup applied \cup failed : s.req # r
    /\ \A x \in messages : x.id \in MsgIds
    /\ \A x \in members \cup message_references : x.message_id \in MsgIds
    /\ \A t \in ListTables : \A x \in Range(ListTable(t)) : x.message_id \in MsgIds
    /\ \A x \in Range(referenced_messages) : x.parent_message_id \in MsgIds

\* a rejected request next to an accepted one whose statements were executed
C3_Witness ==
    \E r1, r2 \in Reqs :
        /\ AbsentId(requests[r1].env)
        /\ requests[r1].res.status = 400
        /\ requests[r2].res.status = 200
        /\ messages # {}
        /\ pending = {}

\* ---------------------------------------------------------------- C4
\* C4: every row of attachments, embeds, components, mentions, members and
\* message_references has the id of a stored message as message_id, every
\* referenced_messages row has one as parent_message_id, and no step
\* removes a message id from the messages table.
MessageIdsStored == {x.id : x \in messages}

C4_ForeignKeys ==
    /\ \A t \in ListTables : \A x \in Range(ListTable(t)) : x.message_id \in MessageIdsStored
    /\ \A x \in members \cup message_references : x.message_id \in MessageIdsStored
    /\ \A x \in Range(referenced_messages) : x.parent_message_id \in MessageIdsStored

C4_ChildrenReferenceMessages ==
    /\ []C4_ForeignKeys
    /\ [][MessageIdsStored \subseteq MessageIdsStored']_vars

\* child rows of several tables are stored while another statement was rejected
C4_Witness ==
    /\ Len(attachments) > 0
    /\ Len(referenced_messages) > 0
    /\ members # {}
    /\ message_references # {}
    /\ failed # {}
\* ---------------------------------------------------------------- C5
\* C5: once the messages upsert of a request has succeeded and its callback
\* has run, the request is answered success=true and every child insert of
\* its payload has been issued, whatever happened to its siblings; a step in
\* which a child insert is rejected takes no other statement out of the
\* queue and changes neither a response nor a table.
IsChild(s) == s.tbl \notin {"authors", "messages"}

C5_AllChildrenIssued ==
    \A r \in Reqs :
        (Stmt(r, "messages", 1) \in applied /\ requests[r].pc = "done") =>
            /\ requests[r].res = [status |-> 200, success |-> TRUE]
            /\ ChildStatements(r, requests[r].env) \subseteq pending \cup applied \cup failed

C5_ChildFailuresIsolated ==
    /\ []C5_AllChildrenIssued
    /\ [][\A s \in failed' \ failed :
             IsChild(s) => /\ pending' = pending \ {s}
                           /\ requests' = requests
                           /\ tables' = tables]_vars

\* a child insert was rejected, a sibling of the same request was executed
\* and the request was answered success=true
C5_Witness ==
    \E s1 \in failed : \E s2 \in applied :
        /\ IsChild(s1) /\ IsChild(s2)
        /\ s1.req = s2.req
        /\ requests[s1.req].res.success
        /\ pending = {}

\* ---------------------------------------------------------------- C6
\* C6: in the step that sends success=true for a request, the request's
\* messages upsert has been executed and the row for its id is stored, and
\* every child insert of the request is still waiting in the queue, none of
\* them executed; a request answered success=true always has its row.
HasRow(m) == \E x \in messages : x.id = m

Responds(r) ==
    /\ r \in DOMAIN requests'
    /\ requests'[r].res.success
    /\ (r \in DOMAIN requests => ~requests[r].res.success)

C6_ResponseAfterUpsertBeforeChildren ==
    /\ [](\A r \in Reqs : requests[r].res.success => HasRow(requests[r].env.message.id))
    /\ [][\A r \in DOMAIN requests' :
             Responds(r) =>
                /\ Stmt(r, "messages", 1) \in applied
                /\ HasRow(requests'[r].env.message.id)
                /\ ChildStatements(r, requests'[r].env) \subseteq pending'
                /\ ChildStatements(r, requests'[r].env) \cap (applied' \cup failed') = {}]_vars

\* a request has been answered success=true while one of its child inserts
\* is still pending and another has already been executed
C6_Witness ==
    \E r \in Reqs :
        /\ requests[r].res.success
        /\ ChildStatements(r, requests[r].env) \cap pending # {}
        /\ ChildStatements(r, requests[r].env) \cap applied # {}

\* ---------------------------------------------------------------- C7
\* C7: when the messages upserts of two or more requests for one id have been
\* executed, in whatever order, the table holds exactly one row for the id,
\* the row is entirely the row of one of those requests, and that request is
\* the one whose upsert was executed last.
UpsertedBy(m) ==
    {r \in Reqs : requests[r].env.message.id = m /\ Stmt(r, "messages", 1) \in applied}

C7_RaceKeepsOnePayload ==
    \A m \in MsgIds :
        Cardinality(UpsertedBy(m)) >= 2 =>
            /\ Cardinality({x \in messages : x.id = m}) = 1
            /\ \A x \in messages :
                  x.id = m => /\ \E r \in UpsertedBy(m) : x = MessageRow(requests[r].env)
                              /\ lastUpsert[m] \in UpsertedBy(m)
                              /\ x = MessageRow(requests[lastUpsert[m]].env)

\* two requests for one id overlapped: the later request's upsert was executed
\* first, and the row is the earlier request's, which differs in every field
C7_Witness ==
    \E m \in MsgIds :
        /\ UpsertedBy(m) = {1, 2}
        /\ lastUpsert[m] = 1
        /\ MessageRow(requests[1].env).content # MessageRow(requests[2].env).content
        /\ MessageRow(requests[1].env).channelId # MessageRow(requests[2].env).channelId
        /\ MessageRow(requests[1].env) \in messages

\* ---------------------------------------------------------------- C8
\* C8: when two accepted requests carry different message ids and all their
\* statements have been executed, the messages rows and, per table, the child
\* rows with their multiplicity (surrogate keys apart) are those of ingesting
\* the two requests one after the other, in one of the two orders, each
\* statement with the outcome the engine gave it.
EmptyStore ==
    [messages |-> {}, attachments |-> << >>, embeds |-> << >>, components |-> << >>,
     members |-> {}, mentions |-> << >>, message_references |-> {},
     referenced_messages |-> << >>]

Store ==
    [messages |-> messages, attachments |-> attachments, embeds |-> embeds,
     components |-> components, members |-> members, mentions |-> mentions,
     message_references |-> message_references,
     referenced_messages |-> referenced_messages]

\* the statements of request r that the engine executed, as the rows they
\* wrote, in program order
RowsOfList(r, t) ==
    LET n == IF t = "attachments" THEN Len(requests[r].env.message.attachments.items)
             ELSE IF t = "embeds" THEN Len(requests[r].env.message.embeds.items)
             ELSE IF t = "components" THEN Len(requests[r].env.message.components.items)
             ELSE Len(requests[r].env.message.mentions.items)
        done == SelectSeq([i \in 1..n |-> Stmt(r, t, i)], LAMBDA s : s \in applied)
    IN [i \in 1..Len(done) |-> RowOf(done[i])]

\* one request run alone to the end, its statements in program order, each
\* with the outcome the engine gave it
IngestAlone(db, r) ==
    LET e == requests[r].env
        ok(t) == Stmt(r, t, 1) \in applied
    IN
    [messages |-> IF ok("messages") THEN UpsertById(db.messages, MessageRow(e))
                  ELSE db.messages,
     attachments |-> db.attachments \o RowsOfList(r, "attachments"),
     embeds |-> db.embeds \o RowsOfList(r, "embeds"),
     components |-> db.components \o RowsOfList(r, "components"),
     members |-> IF ok("members")
                 THEN UpsertByMessageId(db.members, MemberRow(e)) ELSE db.members,
     mentions |-> db.mentions \o RowsOfList(r, "mentions"),
     message_references |-> IF ok("message_references")
                            THEN UpsertByMessageId(db.message_references, MessageReferenceRow(e))
                            ELSE db.message_references,
     referenced_messages |-> IF ok("referenced_messages")
                             THEN UpsertReferenced(db.referenced_messages, ReferencedMessageRow(e))
                             ELSE db.referenced_messages]

OneAfterTheOther(a, b) == IngestAlone(IngestAlone(EmptyStore, a), b)

\* a store without the surrogate keys of its rows
View(db) ==
    [messages |-> db.messages, attachments |-> BagOf(db.attachments),
     embeds |-> BagOf(db.embeds), components |-> BagOf(db.components),
     members |-> db.members, mentions |-> BagOf(db.mentions),
     message_references |-> db.message_references,
     referenced_messages |-> BagOf(db.referenced_messages)]

Quiescent == pending = {} /\ \A r \in Reqs : requests[r].pc = "done"

AcceptedReqs == {r \in Reqs : requests[r].res.status # 400}

C8_DistinctIdsSerializable ==
    \A a, b \in AcceptedReqs :
        (/\ Quiescent
         /\ AcceptedReqs = {a, b}
         /\ requests[a].env.message.id # requests[b].env.message.id)
        => View(Store) \in {View(OneAfterTheOther(a, b)), View(OneAfterTheOther(b, a))}

\* two requests with different ids ran interleaved: the attachment rows of the
\* two messages alternate in the table
C8_Witness ==
    /\ Quiescent
    /\ failed = {}
    /\ Len(requests) = 2
    /\ Len(attachments) = 4
    /\ attachments[1].message_id # attachments[2].message_id
    /\ attachments[2].message_id # attachments[3].message_id

\* ---------------------------------------------------------------- C9
\* C9: at most one referenced_messages row has a given parent_message_id.
C9_OneReferencedPerMessage ==
    \A m \in MsgIds :
        Cardinality({i \in DOMAIN referenced_messages :
                        referenced_messages[i].parent_message_id = m}) <= 1

\* --------------------------------------------------------------- C10
\* C10: members and message_references hold at most one row per message id,
\* and the step that executes a member or message_reference upsert leaves
\* exactly the row it bound as the row of its message id.
RowsFor(table, m) == {x \in table : x.message_id = m}

C10_AtMostOne ==
    \A m \in MsgIds :
        /\ Cardinality(RowsFor(members, m)) <= 1
        /\ Cardinality(RowsFor(message_references, m)) <= 1

C10_MemberAndReferenceReplaced ==
    /\ []C10_AtMostOne
    /\ [][\A s \in applied' \ applied :
             /\ s.tbl = "members" =>
                   RowsFor(members', EnvOf(s).message.id) = {MemberRow(EnvOf(s))}
             /\ s.tbl = "message_references" =>
                   RowsFor(message_references', EnvOf(s).message.id) = {MessageReferenceRow(EnvOf(s))}]_vars

\* a message was re-ingested with other member and message_reference data,
\* and each table holds the one row of the second ingestion
C10_Witness ==
    \E m \in MsgIds :
        /\ Stmt(1, "members", 1) \in applied /\ Stmt(2, "members", 1) \in applied
        /\ Stmt(1, "message_references", 1) \in applied
        /\ Stmt(2, "message_references", 1) \in applied
        /\ requests[1].env.message.id = m /\ requests[2].env.message.id = m
        /\ MemberRow(requests[1].env) # MemberRow(requests[2].env)
        /\ MessageReferenceRow(requests[1].env) # MessageReferenceRow(requests[2].env)
        /\ RowsFor(members, m) = {MemberRow(requests[2].env)}
        /\ RowsFor(message_references, m) = {MessageReferenceRow(requests[2].env)}
\* --------------------------------------------------------------- C11
\* C11: when getMessageContext is called with an id that has no messages
\* row and the lookup itself does not fail, the call is rejected with
\* 'Message not found' after a single query (contextSql is never issued);
\* GET /message-context then answers with an error status, and getChatLog
\* returns an empty sequence, which GET /messages/log sends with status 200.
NoRowFor(id) == ~\E x \in messages : x.id = id

C11_NotFoundAndEmptyLog ==
    (ctx.pc \notin {"idle", "get"} /\ NoRowFor(ctx.id) /\ ctx.error # "Database error") =>
        /\ ctx.error = "Message not found"
        /\ ctx.queries = 1
        /\ ctx.context = << >>
        /\ ctx.pc \in {"rejected", "responded"}
        /\ (ctx.pc = "responded" /\ ctx.caller = "message-context") => ctx.status = 500
        /\ (ctx.pc = "responded" /\ ctx.caller = "log") =>
               (ctx.status = 200 /\ ctx.lines = << >>)

\* the transcript of an id that is not stored was asked of a store that
\* holds other messages, and came back empty
C11_Witness ==
    /\ ctx.caller = "log"
    /\ ctx.pc = "responded"
    /\ NoRowFor(ctx.id)
    /\ ctx.error = "Message not found"
    /\ messages # {}
    /\ ctx.lines = << >>

\* --------------------------------------------------------------- C12
\* C12: a resolved getMessageContext carries at most 20 context messages,
\* each of the channel of the target row and none with the target's id, and
\* context_message_count is the length of the list; when the store holds no
\* other message of the channel the list is empty and the count 0.
Resolved == ctx.pc = "resolved" \/ (ctx.pc = "responded" /\ ctx.error = "")

OthersInChannel ==
    {Joined(m) : m \in {x \in messages :
                          x.channelId = ctx.message[1].channelId /\ x.id # ctx.id}}

C12_ContextBounded ==
    Resolved =>
        LET r == MessageContext(ctx) IN
        /\ Len(r.context_messages) <= 20
        /\ \A i \in 1..Len(r.context_messages) :
              /\ r.context_messages[i].channelId = r.message.channelId
              /\ r.context_messages[i].id # ctx.id
        /\ r.channel_id = r.message.channelId
        /\ r.context_message_count = Len(r.context_messages)
        /\ OthersInChannel = {} =>
              (r.context_messages = << >> /\ r.context_message_count = 0)

\* a channel of more than 21 messages: the context is cut at 20
C12_Witness ==
    /\ Resolved
    /\ Len(ctx.context) = 20
    /\ Cardinality(OthersInChannel) > 20

\* --------------------------------------------------------------- C13
\* C13: the context of a resolved getMessageContext is made of distinct
\* other messages of the target's channel, min(20, n) of the n there are, in
\* ascending message_timestamp order, and no message left out is earlier than
\* one that is in it, wherever the target's own timestamp falls; with
\* messages at T, T+1m and T+10m the context of the second is the first and
\* the third, in that order.
Earlier(a, b) == TsRank(a.message_timestamp) < TsRank(b.message_timestamp)

ExampleRow(id, k) ==
    Joined(StoredRow(id, "ch1", AuthorOfSmall(id), ContentOfSmall(id), k, CreatedOfSmall(id)))

ExampleStore ==
    {x.id : x \in messages} = SmallIds
    /\ \A x \in messages :
          /\ x.channelId = "ch1"
          /\ x.message_timestamp = TsName(IF x.id = "m1" THEN 1 ELSE IF x.id = "m2" THEN 2 ELSE 11)

C13_FirstTwentyByTimestamp ==
    Resolved =>
        LET r == ctx.context
            n == Cardinality(OthersInChannel)
        IN
        /\ Len(r) = IF n < 20 THEN n ELSE 20
        /\ \A i \in 1..Len(r) : r[i] \in OthersInChannel
        /\ \A i, j \in 1..Len(r) : i < j => (r[i] # r[j] /\ ~Earlier(r[j], r[i]))
        /\ \A x \in OthersInChannel :
              (\A i \in 1..Len(r) : r[i] # x) => \A i \in 1..Len(r) : ~Earlier(x, r[i])
        /\ (ExampleStore /\ ctx.id = "m2") => r = <<ExampleRow("m1", 1), ExampleRow("m3", 11)>>

\* the example: the context of the message at T+1m is [T, T+10m]
C13_Witness ==
    /\ Resolved
    /\ ExampleStore
    /\ ctx.id = "m2"
    /\ Len(ctx.context) = 2
    /\ ctx.context[1].id = "m1"
    /\ ctx.context[2].id = "m3"

\* ------------------------------------------------------------------- C14
SevenEntities == {"attachments", "embeds", "components", "member", "mentions",
                  "message_reference", "referenced_message"}

\* the seven queries of a found message have all come back
AllSevenBack == detail.pc = "fan" /\ detail.waiting = {}

\* C14: GET /messages/:id never sends a second response, and for a found
\* message it sends none while one of the seven child queries is still out
\* and exactly one once the last of them has come back, whatever the order
\* in which they come back; that response has a slot for each of the seven
\* entities.
C14_OneResponseAfterAllSeven ==
    /\ Len(detail.responses) <= 1
    /\ detail.pc = "done" => Len(detail.responses) = 1
    /\ detail.pc = "fan" =>
          /\ DOMAIN detail.results = SevenEntities \ detail.waiting
          /\ detail.waiting # {} => detail.responses = << >>
          /\ detail.waiting = {} =>
                /\ Len(detail.responses) = 1
                /\ detail.responses[1].status = 200
                /\ detail.responses[1].message = detail.message
                /\ DOMAIN detail.responses[1].slots = SevenEntities

C14_Witness ==
    /\ AllSevenBack
    /\ detail.failed = {}
    /\ Len(detail.responses) = 1
    /\ detail.responses[1].slots["attachments"].rows # << >>

\* ------------------------------------------------------------------- C15
EntityRows(key) ==
    CASE key = "attachments" -> attachments
      [] key = "embeds" -> embeds
      [] key = "components" -> components
      [] key = "member" -> SetToSeq(members)
      [] key = "mentions" -> mentions
      [] key = "message_reference" -> SetToSeq(message_references)
      [] key = "referenced_message" -> referenced_messages

BelongsTo(key, row, id) ==
    IF key = "referenced_message" THEN row.parent_message_id = id ELSE row.message_id = id

\* the slot holds the rows of the entity that belong to the message
HoldsRows(key, slot, id) ==
    /\ ~slot.error
    /\ \A i \in DOMAIN slot.rows : BelongsTo(key, slot.rows[i], id)
    /\ \A x \in Range(EntityRows(key)) :
          BelongsTo(key, x, id) =>
             Cardinality({i \in DOMAIN slot.rows : slot.rows[i] = x})
               = Cardinality({i \in DOMAIN EntityRows(key) : EntityRows(key)[i] = x})

\* C15: whichever of the seven child queries fail, the request of a found
\* message is answered with a success response (a failed child query never
\* produces a 500); the slot of each failed query carries the error marker
\* and every other slot the rows of its entity.
C15_FailedSlotsMarked ==
    /\ \A i \in DOMAIN detail.responses :
          detail.responses[i].status = 500 => detail.failed = {}
    /\ AllSevenBack =>
          /\ Len(detail.responses) = 1
          /\ detail.responses[1].status = 200
          /\ \A key \in SevenEntities :
                IF key \in detail.failed
                THEN detail.responses[1].slots[key].error
                ELSE HoldsRows(key, detail.responses[1].slots[key], detail.id)

C15_Witness ==
    /\ AllSevenBack
    /\ detail.failed = {"attachments", "member", "referenced_message"}
    /\ detail.responses[1].status = 200
    /\ detail.responses[1].slots["components"].rows # << >>

\* ------------------------------------------------------------------- C16
ListReads == {"messages", "messages/user", "authors", "attachments", "embeds",
              "components", "mentions"}

\* nothing stored matches the request
NothingFor(endpoint, param) ==
    CASE endpoint = "messages" -> messages = {}
      [] endpoint = "messages/user" -> ~\E m \in messages : m.author_id = param
      [] endpoint = "authors" -> authors = {}
      [] endpoint = "attachments" -> ~\E x \in Range(attachments) : x.message_id = param
      [] endpoint = "embeds" -> ~\E x \in Range(embeds) : x.message_id = param
      [] endpoint = "components" -> ~\E x \in Range(components) : x.message_id = param
      [] endpoint = "mentions" -> ~\E x \in Range(mentions) : x.message_id = param

LookupAnswered == lookup.pc = "done" /\ ~lookup.err

\* C16: a read endpoint answers not-found only for a single message by id
\* and a single author by id, and only when no such row is stored; every
\* list endpoint whose query succeeds answers successfully, with the empty
\* list when nothing matches.
C16_NotFoundOnlySingleReads ==
    /\ lookup.status = 404 =>
          /\ lookup.endpoint = "authors/:id"
          /\ ~\E a \in authors : a.id = lookup.param
    /\ (LookupAnswered /\ lookup.endpoint = "authors/:id"
          /\ ~\E a \in authors : a.id = lookup.param) => lookup.status = 404
    /\ \A i \in DOMAIN detail.responses :
          detail.responses[i].status = 404 <=> (detail.pc = "done" /\ NoRowFor(detail.id)
                                                  /\ detail.responses[i].status # 500)
    /\ (LookupAnswered /\ lookup.endpoint \in ListReads) =>
          /\ lookup.status = 200
          /\ NothingFor(lookup.endpoint, lookup.param) <=> lookup.rows = << >>

C16_Witness ==
    /\ LookupAnswered
    /\ lookup.endpoint = "mentions"
    /\ lookup.param = "m2"
    /\ messages # {}
    /\ mentions # << >>
    /\ lookup.status = 200
    /\ lookup.rows = << >>

\* ------------------------------------------------------------------- C17
\* C17: no step of a read endpoint, of the context assembler, of the
\* transcript, of the two annotation endpoints or of the insight generation
\* changes a table of the store.
C17_ReadsLeaveStore == [][tables' = tables]_vars

C17_Witness ==
    /\ messages # {}
    /\ insight.pc = "done"
    /\ insight.err = ""
    /\ Len(insight.completed) = 2
    /\ lookup.pc = "done"
    /\ lookup.endpoint = "authors/:id"
    /\ lookup.status = 404

\* ------------------------------------------------------------------- C18
\* C18: user_insights holds no row in any reachable state, also after an
\* insight generation has answered, and a GET /user_insights/generate whose
\* query succeeds answers successfully with the empty insights list.
C18_NoInsightStored ==
    /\ user_insights = {}
    /\ (LookupAnswered /\ lookup.endpoint = "user_insights") =>
          /\ lookup.status = 200
          /\ lookup.rows = << >>

C18_Witness ==
    /\ insight.pc = "done"
    /\ insight.err = ""
    /\ insight.user = "A1"
    /\ insight.responses[1].insights # << >>
    /\ LookupAnswered
    /\ lookup.endpoint = "user_insights"
    /\ lookup.param = "A1"

\* ------------------------------------------------------------------- C19
NoMessageOf(user) == ~\E m \in messages : m.author_id = user

\* C19: when the user has no stored message and the load succeeds, insight
\* generation answers once, successfully, with message_count 0 and no
\* insights array, and issues no window query.
C19_NoMessagesNoQueries ==
    (insight.pc = "done" /\ insight.err # "load" /\ NoMessageOf(insight.user)) =>
        /\ insight.issued = << >>
        /\ Len(insight.responses) = 1
        /\ insight.responses[1].status = 200
        /\ insight.responses[1].message_count = 0
        /\ "insights" \notin insight.responses[1].keys
        /\ insight.responses[1].insights = << >>

C19_Witness ==
    /\ insight.pc = "done"
    /\ insight.user = "A9"
    /\ Cardinality(messages) > 1
    /\ insight.responses # << >>
    /\ insight.responses[1].status = 200

\* ------------------------------------------------------------------- C20
\* C20: the window queries run one after the other: at most one is out at
\* any time, query k + 1 is issued only when query k has come back, and a
\* response is sent only when none is out, the successful one only when the
\* query of the last message has come back.
C20_WindowQueriesSequential ==
    /\ Cardinality(insight.outstanding) <= 1
    /\ \A i \in DOMAIN insight.issued : insight.issued[i] = i
    /\ IsPrefix(insight.completed, insight.issued)
    /\ Len(insight.issued) = Len(insight.completed) + Cardinality(insight.outstanding)
    /\ insight.responses # << >> =>
          /\ insight.outstanding = {}
          /\ Len(insight.responses) = 1
          /\ insight.responses[1].status = 200 =>
                Len(insight.completed) = Len(insight.userMessages)

C20_Witness ==
    /\ insight.pc = "done"
    /\ insight.err = ""
    /\ Len(insight.userMessages) = 2
    /\ insight.completed = << 1, 2 >>
    /\ insight.responses[1].status = 200

\* ------------------------------------------------------------------- C21
MessagesOf(user) == {m \in messages : m.author_id = user}

Least(a, b) == IF a < b THEN a ELSE b

\* the generation has ended and neither the load nor a window query failed
GenerationRan == insight.pc = "done" /\ insight.err \notin {"load", "query"}

\* the answer carries the two statistics of the user's messages and the
\* bundles of the first 20 of them in load order
CountsAndBundles(r) ==
    /\ r.status = 200
    /\ r.message_count = Cardinality(MessagesOf(insight.user))
    /\ \E i \in DOMAIN r.insights :
          /\ r.insights[i].insight_name = "channels_posted_in"
          /\ r.insights[i].insight_value =
                ToString(Cardinality({m.channelId : m \in MessagesOf(insight.user)}))
    /\ Len(r.messages) = Least(Cardinality(MessagesOf(insight.user)), 20)
    /\ \A i \in DOMAIN r.messages : r.messages[i].message = insight.userMessages[i]

\* C21: for a user with N > 0 messages, insight generation answers with
\* message_count = N, channels_posted_in = the number of distinct channels
\* of the N messages, and min(N, 20) bundles, those of the first 20
\* messages in load order.
C21_CountsAndBundles ==
    (GenerationRan /\ MessagesOf(insight.user) # {}) =>
        /\ Len(insight.responses) = 1
        /\ CountsAndBundles(insight.responses[1])

\* the same when every timestamp of the user's messages parses as a date
C21_CountsAndBundlesOfDatedMessages ==
    (GenerationRan /\ MessagesOf(insight.user) # {}
       /\ \A m \in MessagesOf(insight.user) : ValidDate(m.message_timestamp)) =>
        /\ Len(insight.responses) = 1
        /\ CountsAndBundles(insight.responses[1])

\* ------------------------------------------------------------------- C22
ClassifierRequest == lookup.endpoint = "messages/classifier"

\* C22: when the upstream classifier call fails, the request ends with a
\* failure response and the upstream call was made exactly once.
C22_FailurePropagates ==
    (ClassifierRequest /\ lookup.pc = "done" /\ lookup.err) =>
        /\ lookup.calls = 1
        /\ lookup.status >= 400

\* ------------------------------------------------------------------- C23
\* the texts joined with newlines, written out for each body
ExpectedBody(items) ==
    CASE items = << >> -> ""
      [] items = << "hi" >> -> "hi"
      [] items = << "hi", "there" >> -> "hi\nthere"
      [] items = << "hi", Null, "" >> -> "hi\n\n"

\* C23: a classifier request whose body carries a text list makes exactly
\* one upstream call, from the moment the handler has run, and the body of
\* that call is the texts joined with newlines: the empty string for the
\* empty list, for which the call is made all the same.
C23_OneCallWithJoinedTexts ==
    (ClassifierRequest /\ lookup.texts.isArray) =>
        /\ lookup.calls = 1
        /\ lookup.sent = ExpectedBody(lookup.texts.items)
        /\ lookup.pc \in {"predict", "done"}

C23_Witness ==
    /\ ClassifierRequest
    /\ lookup.texts = List(<< >>)
    /\ lookup.pc = "done"
    /\ lookup.status = 200
    /\ lookup.calls = 1
    /\ lookup.sent = ""

\* ------------------------------------------------------------------- C24
ToneRequest == ctx.caller = "tone"

\* C24: a tone request gets no response before it has been handled and
\* exactly one afterwards, always a success; when the body has no message,
\* the chat call fails or its reply does not parse, the tone is empty.
C24_ToneAlwaysAnswers ==
    ToneRequest =>
        /\ ctx.pc # "responded" => ctx.replies = 0
        /\ ctx.pc = "responded" =>
              /\ ctx.replies = 1
              /\ ctx.status = 200
              /\ (ctx.id = NoToneMessage \/ ctx.reply \in {"rejected", "not json"}) =>
                    ctx.tone = ""

C24_Witness ==
    /\ ToneRequest
    /\ ctx.pc = "responded"
    /\ ctx.reply = "not json"
    /\ ctx.chats = 1
    /\ ctx.lines # << >>
    /\ ctx.tone = ""

\* ------------------------------------------------------------------- C25
\* two messages were ingested one after the other with no statement
\* rejected, the first by Ann and the second by an author with Ann's id
AnnThenSameAuthor ==
    /\ Len(requests) = 2
    /\ Settled
    /\ failed = {}
    /\ requests[1].env.message.author = Ann
    /\ requests[2].env.message.author.id = "A1"

\* the rows of the second message that the call has read: as the message
\* itself, or among the context of the other message
ReadRows ==
    {ctx.message[i] : i \in {j \in DOMAIN ctx.message :
                                ctx.message[j].id = requests[2].env.message.id}}
    \cup {ctx.context[i] : i \in {j \in DOMAIN ctx.context :
                                ctx.context[j].id = requests[2].env.message.id}}

\* the names on the transcript lines of the second message
ReadLineNames ==
    {ctx.lines[i].username : i \in {j \in DOMAIN ctx.lines :
          j \in DOMAIN ctx.context /\ ctx.context[j].id = requests[2].env.message.id}}

\* C25 as stated: once the author row of A1 is stored with the global name
\* "Ann", a message ingested with author id A1 reads back, as message, as
\* context and on the transcript, with the display name "Ann".
C25_DisplayNameAnn ==
    AnnThenSameAuthor =>
        /\ \A row \in ReadRows : row.globalName = "Ann"
        /\ \A name \in ReadLineNames : name = "Ann"

\* C25 as amended: the author object of the ingested message replaces the
\* stored row, so the message reads back with the global name that object
\* carries (none if it carries none), and the transcript falls back to the
\* username; it reads back as "Ann" when the object carries "Ann".
C25_DisplayNameOfLastAuthorObject ==
    AnnThenSameAuthor =>
        /\ \A row \in ReadRows :
              row.globalName = Bind(requests[2].env.message.author.globalName)
        /\ \A name \in ReadLineNames :
              name = IF requests[2].env.message.author.globalName = Undefined
                     THEN requests[2].env.message.author.username
                     ELSE requests[2].env.message.author.globalName
        /\ requests[2].env.message.author = Ann =>
              /\ \A row \in ReadRows : row.globalName = "Ann"
              /\ \A name \in ReadLineNames : name = "Ann"

C25_Witness ==
    /\ AnnThenSameAuthor
    /\ requests[2].env.message.author = Ann
    /\ requests[1].env.message.id # requests[2].env.message.id
    /\ ctx.caller = "log"
    /\ ctx.pc = "responded"
    /\ ctx.id = requests[1].env.message.id
    /\ ReadLineNames = {"Ann"}

\* ------------------------------------------------------------------- C26
\* getChatLog has returned the transcript of a context that was assembled
Transcribed == ctx.caller = "log" /\ ctx.pc = "responded" /\ ctx.error = ""

ContextLines == [i \in DOMAIN ctx.context |-> LogLine(ctx.context[i])]

\* the instants of the rows do not decrease along the sequence
ByInstant(rows) ==
    \A i, j \in DOMAIN rows :
        i < j => GetTime(rows[i].message_timestamp) <= GetTime(rows[j].message_timestamp)

\* C26 as stated: the transcript has one line per context message and its
\* lines are always in the order in which the context messages were
\* returned, which is ascending timestamp order.
C26_TranscriptInContextOrder ==
    Transcribed =>
        /\ Len(ctx.lines) = Len(ctx.context)
        /\ ctx.lines = ContextLines
        /\ ByInstant(ctx.context)

\* C26 as amended: the transcript has one line per context message, in
\* ascending order of the instants the timestamps denote (NULL being the
\* epoch); it is in the order of the context messages whenever that order,
\* the text order of the timestamps, is also ascending by instant.
C26_TranscriptByInstant ==
    Transcribed =>
        /\ Len(ctx.lines) = Len(ctx.context)
        /\ BagOf(ctx.lines) = BagOf(ContextLines)
        /\ ByInstant(ctx.context) => ctx.lines = ContextLines
        /\ Len(ctx.context) <= 3 =>
              \E p \in Perms(DOMAIN ctx.context) :
                 /\ ByInstant([i \in DOMAIN ctx.context |-> ctx.context[p[i]]])
                 /\ ctx.lines = [i \in DOMAIN ctx.context |-> ContextLines[p[i]]]

\* two context messages whose text order is not their order in time
C26_Witness ==
    /\ Transcribed
    /\ Len(ctx.context) = 2
    /\ ~ByInstant(ctx.context)
    /\ ctx.lines = << ContextLines[2], ContextLines[1] >>

\* ------------------------------------------------------------------- C27
\* a chat log was built for a stored message whose context was assembled
ChatLogBuilt ==
    /\ ctx.caller \in {"log", "tone"}
    /\ ctx.pc \in {"chat", "responded"}
    /\ ctx.message # << >>
    /\ ctx.error = ""

\* C27: the chat log of a stored message holds the context messages and
\* then the requested message, so that its last line is the line of the
\* message whose tone is asked for.
C27_MainMessageLast ==
    ChatLogBuilt =>
        /\ Len(ctx.lines) = Len(ctx.context) + 1
        /\ ctx.lines[Len(ctx.lines)] = LogLine(ctx.message[1])

\* ------------------------------------------------------------------- C29
\* C29: a tone request for an id that is not stored still calls the chat
\* endpoint, once and with the empty transcript, and the tone of the reply
\* is what the caller gets.
C29_ToneOfUnknownMessage ==
    (ToneRequest /\ ctx.id # NoToneMessage /\ NoRowFor(ctx.id)
       /\ ctx.error = "Message not found" /\ ctx.pc \notin {"get", "rejected"}) =>
        /\ ctx.chats = 1
        /\ ctx.lines = << >>
        /\ ctx.pc = "responded" =>
              /\ ctx.status = 200
              /\ ctx.reply = "{tone:[Joking]}" => ctx.tone = "[Joking]"
              /\ ctx.reply = "{tone:[]}" => ctx.tone = "[]"

C29_Witness ==
    /\ ToneRequest
    /\ ctx.id = "m9"
    /\ messages # {}
    /\ ctx.pc = "responded"
    /\ ctx.chats = 1
    /\ ctx.lines = << >>
    /\ ctx.tone = "[Joking]"

\* ------------------------------------------------------------------- C28
UpsertFailed(r) == Stmt(r, "messages", 1) \in failed

\* the request is not answered success=true, is answered 500 success=false
\* once its callback has run, has no child statement anywhere, and its
\* author upsert is still in the queue or has been run by the engine
C28_NoChildrenAfterFailedUpsert ==
    \A r \in Reqs :
        UpsertFailed(r) =>
            /\ requests[r].pc = "done" => requests[r].res = [status |-> 500, success |-> FALSE]
            /\ ~requests[r].res.success
            /\ \A s \in pending \cup applied \cup failed : s.req = r => ~IsChild(s)
            /\ AuthorStatements(r, requests[r].env) \subseteq pending \cup applied \cup failed

\* C28: when the messages upsert of a request is rejected, the request is
\* answered 500 with success=false and issues no attachment, embed,
\* component, mention, member, reference or referenced-message statement;
\* the author upsert issued before it is not withdrawn and not undone: the
\* step of the rejection changes no table and leaves it in the queue, and
\* it may be executed before or after.
C28_FailedUpsertStopsRequest ==
    /\ []C28_NoChildrenAfterFailedUpsert
    /\ [][\A s \in failed' \ failed :
             s.tbl = "messages" => /\ pending' = pending \ {s}
                                   /\ tables' = tables]_vars

\* the upsert of a request with children was rejected, the request was
\* answered, and its author upsert was executed afterwards all the same
C28_Witness ==
    \E r \in Reqs :
        /\ UpsertFailed(r)
        /\ requests[r].res = [status |-> 500, success |-> FALSE]
        /\ ChildStatements(r, requests[r].env) # {}
        /\ Stmt(r, "authors", 1) \in applied
        /\ \E a \in authors : a.id = requests[r].env.message.author.id
        /\ ~HasRow(requests[r].env.message.id)
        /\ pending = {}

\* ------------------------------------------------------------------- C30
\* C30: in every run of the plugin, from a start() to the stop() that
\* follows it, each message id is sent to the classifier at most once,
\* whatever the interleaving of MESSAGE_CREATE events and scan batches.
C30_SentAtMostOncePerRun ==
    \A m \in PluginIds : \A r \in 1..MaxRuns : plugin.sent[m][r] <= 1

\* the same for the first run of a new instance, where no handler of an
\* earlier run is in flight; there an id a handler works on is in
\* processedMessages
C30_SentAtMostOnceInFirstRun ==
    /\ \A m \in PluginIds : plugin.sent[m][1] <= 1
    /\ plugin.running /\ plugin.runs = 1 =>
          \A t \in plugin.tasks : t.id \in plugin.processedMessages

\* ------------------------------------------------------------------- C31
\* a step that calls processCurrentChannelMessages: the switch timer, start()
\* or the observer after nodes were added
ScanCalled ==
    \/ plugin'.timers < plugin.timers
    \/ plugin'.runs > plugin.runs
    \/ plugin.running /\ ~(plugin'.dom \subseteq plugin.dom)

LastN(seq, n) == IF Len(seq) <= n THEN seq ELSE SubSeq(seq, Len(seq) - n + 1, Len(seq))

\* C32: after any sequence of addUserMessage calls, the list of each user
\* has at most maxUserMessages entries, and they are the non-empty contents
\* passed for that user last, in the order of the calls.
C32_LastTenInOrder ==
    \A a \in PluginAuthors :
        /\ Len(plugin.userMessages[a]) <= maxUserMessages
        /\ plugin.userMessages[a] = LastN(plugin.calls.passed[a], maxUserMessages)

\* an eleventh content was added for A1, and its first is gone, while a call
\* for another user or with nothing to add came in between
C32_Witness ==
    /\ Len(plugin.calls.passed["A1"]) = maxUserMessages + 1
    /\ plugin.calls.count > maxUserMessages + 1
    /\ Len(plugin.userMessages["A1"]) = maxUserMessages
    /\ Head(plugin.userMessages["A1"]) = plugin.calls.passed["A1"][2]

\* ------------------------------------------------------------------- C33
\* the page shows the channel the plugin was told of last
OnSwitchedPage ==
    /\ plugin.currentChannelId # Null
    /\ plugin.dom = VisibleIn(plugin.currentChannelId)

C34_ClearedAfterStop ==
    ~plugin.running /\ plugin.runs > 0 =>
        /\ plugin.messageTones = {}
        /\ plugin.processedMessages = {}
        /\ \A a \in PluginAuthors : plugin.userMessages[a] = << >>
        /\ plugin.indicators = {}

\* ------------------------------------------------------------------- C35
\* C35: the set of message ids saved in localStorage only grows, over every
\* sequence of start, classification, stop and restart, and after a save
\* it is the key set of messageTones.
C35_StorageOnlyGrows ==
    [][/\ plugin.storage \subseteq plugin'.storage
       /\ plugin'.storage # plugin.storage => plugin'.storage = plugin'.messageTones]_vars

====
